---- MODULE Spec2Model ----
(***************************************************************************)
(* Model of the insights endpoint of the SpendSense backend                *)
(* (spendsense-backend/app/api/v1/consumer.py, get_insights), of the       *)
(* session context manager it runs in (app/database/session.py) and of the *)
(* writers of the tables it reads (scripts/seed_demo_data.py).             *)
(*                                                                         *)
(* Money is kept in integer cents (the columns are Numeric(10, 2)), dates  *)
(* are day numbers, a utilization is kept in tenths of a percent.  The     *)
(* handler converts every Decimal to a binary float: where the float       *)
(* result depends on the representation error (a value exactly half way    *)
(* between two roundings, a deviation of exactly 10% of the mean) the      *)
(* model allows every outcome, because the outcome depends on the          *)
(* magnitudes and on the order in which the database returns the rows.     *)
(*                                                                         *)
(* Every query of the handler is one step: the engine is created without   *)
(* an isolation level (connection.py:91-101), so each statement reads the  *)
(* rows committed when it runs.  Spec lets the other sessions commit only  *)
(* between requests; SpecConcurrent also lets one of them commit while a   *)
(* request is in flight, which the variable raced records.  A behaviour    *)
(* takes place within one calendar day (today); the handler reads the date *)
(* once per request.  SpecRepeat adds what a client keeps of the previous  *)
(* answer over the same store.                                             *)
(*                                                                         *)
(* The other consumer endpoints (get_transactions, get_recommendations)    *)
(* answer in one step each.  SpecRecommendations explores the              *)
(* recommendations endpoint over its own tables, SpecConsumer one client   *)
(* calling the three consumer endpoints in turn, and SpecAccess the        *)
(* authentication and role dependencies (app/dependencies.py,              *)
(* app/utils/jwt.py) on every token and endpoint.                          *)
(*                                                                         *)
(* SpecTransactions follows one client paging through get_transactions,    *)
(* SpecJobs the Lambda handlers and the EventBridge rules that chain them  *)
(* (lambdas/, infrastructure/cdk/stacks/lambda_stack.py), SpecSeed         *)
(* repeated runs of generate_transactions, SpecBuckets the week-bucket     *)
(* loop of get_insights on any window, and SpecSession one use of          *)
(* get_session after another, clause by clause.                            *)
(***************************************************************************)
EXTENDS Integers, Sequences, FiniteSets, Bags, TLC

\* ------------------------------------------------------------------------
\* Bounds of the model
\* ------------------------------------------------------------------------

\* Total number of rows (transactions and accounts) in the database.
MaxRows == 4

\* Number of rows of the table recommendations.
MaxRecs == 10

\* Length of the cognito:groups list of a token.
MaxGroups == 2

\* Total number of rows of the four tables when all consumer endpoints are
\* explored together.
MaxConsumerRows == 4

\* Latest day on which a window given to the week-bucket loop starts or ends.
MaxDay == 16

\* Largest limit parameter of the explored calls of get_transactions.
MaxLimit == 3

\* Number of rows of the table transactions while a client pages through it.
MaxPagingRows == 3

\* Number of triggers of the background jobs from outside (sign-up events and
\* scheduled runs).
MaxTriggers == 1

\* Number of calls a body makes on its session before it finishes.
MaxBodyCalls == 2

\* ------------------------------------------------------------------------
\* Values
\* ------------------------------------------------------------------------

\* SQL NULL / Python None in a string column.
NULL == "NULL"

\* An absent Numeric (None) is <<>>, a present one is <<cents>>.
NoneNum == <<>>

Some(v) == <<v>>

\* The authenticated caller (current_user.user_id) and another user.
Caller == "u1"

Users == {"u1", "u2"}

\* The dates on which the explored requests are made.
RequestDates == {100, 101}

\* Values of the period query parameter ("60d" stands for every other string).
Periods == {"30d", "90d", "60d"}

Tx(u, d, m, a, c) == [user_id |-> u, date |-> d, merchant |-> m, amount |-> a, category |-> c]

\* The transaction rows the writers can insert (ids are opaque: the table is
\* a bag of these).
TxUniverse ==
    { Tx("u1", 90, "Gym", -100, "Health"),
      Tx("u1", 90, "Gym", -110, "Health"),
      Tx("u1", 90, "Gym", -90, NULL),
      Tx("u1", 90, "Shop", -100, "Shopping"),
      Tx("u1", 70, "Netflix", -1599, "Subscriptions"),
      Tx("u1", 101, "Netflix", -1599, "Subscriptions"),
      Tx("u1", 90, "Gym", 100, NULL),
      Tx("u2", 90, "Gym", -100, "Health") }

Acct(i, u, t, b, l) == [id |-> i, user_id |-> u, account_type |-> t, balance |-> b, limit |-> l]

\* The account rows the writers can insert.
AccountUniverse ==
    { Acct("a1", "u1", "credit_card", Some(-340000), Some(500000)),
      Acct("a2", "u1", "credit_card", Some(-40000), Some(300000)),
      Acct("a3", "u1", "credit_card", Some(-10000), Some(0)),
      Acct("a4", "u1", "checking", Some(85000), Some(100000)),
      Acct("a5", "u1", "credit_card", Some(-20000), NoneNum),
      Acct("a6", "u2", "credit_card", Some(-50000), Some(100000)) }

\* ------------------------------------------------------------------------
\* Arithmetic helpers
\* ------------------------------------------------------------------------

Abs(x) == IF x < 0 THEN -x ELSE x

Min(a, b) == IF a <= b THEN a ELSE b

RECURSIVE SumSet(_, _)
\* Sum of f[x] over the finite set S.
SumSet(S, f) ==
    IF S = {} THEN 0
    ELSE LET x == CHOOSE y \in S : TRUE
         IN f[x] + SumSet(S \ {x}, f)

\* Injective sequences enumerating the finite set S: the orders in which a
\* query without a total ORDER BY may return its rows.
Orderings(S) ==
    { s \in [1..Cardinality(S) -> S] : \A i, j \in 1..Cardinality(S) : i # j => s[i] # s[j] }

RoundDown(num, den) == { num \div den }

\* Python round() of the float num/den (num >= 0, den > 0) to the unit of
\* num/den: the nearest integer; at an exact half the float's representation
\* error decides, so both neighbours are possible.
Round(num, den) ==
    LET q == num \div den
        r == num % den
    IN IF 2 * r < den THEN {q}
       ELSE IF 2 * r > den THEN {q + 1}
       ELSE {q, q + 1}

\* ------------------------------------------------------------------------
\* State
\* ------------------------------------------------------------------------

VARIABLES
    store,            \* table transactions: a bag of rows
    accounts,         \* table accounts: a set of rows (ids are unique)
    session_factory,  \* session.py _session_factory is not None
    raced,            \* another session committed during the request in flight
    pc,               \* position of the handler
    session,          \* the request's session: none, open, committed, rolledback
    nq,               \* queries issued by the request so far
    filters,          \* <<lower, upper>> date bounds of the filters issued so far
    frame,            \* local variables of get_insights
    response,         \* what the handler returned or raised
    today,            \* the calendar date, as date.today() returns it
    previous,         \* period and data of the last answer over the present store
    tx_response,      \* what get_transactions returned or raised, with its parameters
    recommendations,  \* table recommendations (with the trace of each): a set of rows
    persona_assignments,  \* table persona_assignments: a set of rows
    rec_response,     \* what get_recommendations returned or raised
    access,           \* the last authenticated call: endpoint, token and outcome
    collected,        \* the pages a client gathered while paging over the present store
    bus,              \* EventBridge: the invocations the rules have yet to deliver (a bag)
    job,              \* the Lambda invocation in progress
    history,          \* what the background jobs and their triggers did, in order
    seed_run,         \* the last run of generate_transactions, while its result stands
    loop,             \* the week-bucket loop of get_insights run on its own, with its locals
    ctx               \* one use of the context manager get_session, with the calls on its session

vars == <<store, accounts, session_factory, raced, pc, session, nq, filters, frame, response, today,
          previous, tx_response, recommendations, persona_assignments, rec_response, access,
          collected, bus, job, history, seed_run, loop, ctx>>

\* The state of the other endpoints and of their tables.
apiVars == <<tx_response, recommendations, persona_assignments, rec_response, access>>

\* The state outside the API handlers and their tables.
otherVars == <<collected, bus, job, history, seed_run, loop, ctx>>

\* The state of the background jobs and of the scripts.
scriptVars == <<bus, job, history, seed_run, loop, ctx>>

\* The locals of get_insights before the handler assigns them.
InitFrame ==
    [ period |-> NULL,
      start_date |-> 0,
      end_date |-> 0,
      days_in_period |-> 0,
      total_spending |-> 0,
      top_category |-> NULL,
      spending_by_category |-> <<>>,
      credit_accounts |-> <<>>,
      credit_utilization |-> <<>>,
      subscription_merchants |-> <<>>,
      subscriptions |-> <<>>,
      total_monthly_recurring |-> <<0, 1>> ]

NoResponse == [status |-> 0, detail |-> NULL, data |-> NULL, meta |-> NULL]

\* raise HTTPException(status_code=..., detail=...)
HTTPException(code, text) == [status |-> code, detail |-> text, data |-> NULL, meta |-> NULL]

Idle == pc = "idle"

InFlight == pc \notin {"idle", "done"}

Rows == BagCardinality(store) + Cardinality(accounts)

\* No answer has been given over the present store.
NoPrevious == [period |-> NULL, data |-> NULL]

\* The state of the insights endpoint and of its tables after start-up.
InitInsights ==
    /\ store = EmptyBag
    /\ accounts = {}
    /\ session_factory = FALSE
    /\ raced = FALSE
    /\ pc = "idle"
    /\ session = "none"
    /\ nq = 0
    /\ filters = {}
    /\ frame = InitFrame
    /\ response = NoResponse
    /\ today \in RequestDates
    /\ previous = NoPrevious

NoTxResponse == [status |-> 0, detail |-> NULL, data |-> NULL, params |-> NULL]

\* No UserInfo is handed to the handler.
NoUser == [user_id |-> NULL, role |-> NULL]

NoAccess ==
    [endpoint |-> NULL, required_role |-> NULL, token |-> NULL, status |-> 0, user |-> NoUser]

\* The state of the other endpoints and of their tables after start-up.
InitApi ==
    /\ tx_response = NoTxResponse
    /\ recommendations = {}
    /\ persona_assignments = {}
    /\ rec_response = NoResponse
    /\ access = NoAccess

\* The parameters of a call of get_transactions.
Query(s, e, c, m, p, l) ==
    [start_date |-> s, end_date |-> e, category |-> c, merchant |-> m, page |-> p, limit |-> l]

\* The client is not paging.
NoCollected == [q |-> Query(NoneNum, NoneNum, NULL, <<>>, 0, 0), pages |-> <<>>, total_pages |-> 0]

\* No event.
NoEvent ==
    [ source |-> NULL, detail_type |-> NULL,
      detail |-> [event_type |-> NULL, timestamp |-> 0, user_id |-> NULL], time |-> 0 ]

\* No invocation is in progress.
NoJob == [fn |-> NULL, event |-> [event_type |-> NULL, user_id |-> NULL, timestamp |-> 0],
          pc |-> NULL, user_id |-> NULL, statusCode |-> 0]

\* generate_transactions has not run since the table last changed otherwise.
NoSeedRun ==
    [user |-> NULL, existing_count |-> 0, deleted |-> 0, inserted |-> 0, returned |-> 0,
     again |-> FALSE, before |-> 0]

\* The week-bucket loop is not running.
NoLoop == [pc |-> NULL, start_date |-> 0, end_date |-> 0, current_date |-> 0, week_buckets |-> <<>>]

\* get_session is not in use.
NoCtx ==
    [pc |-> "idle", obtained |-> FALSE, calls |-> <<>>, body |-> NULL, commit |-> NULL,
     pending |-> NULL, propagated |-> NULL]

\* The state outside the API handlers after start-up.
InitOther ==
    /\ collected = NoCollected
    /\ bus = EmptyBag
    /\ job = NoJob
    /\ history = <<>>
    /\ seed_run = NoSeedRun
    /\ loop = NoLoop
    /\ ctx = NoCtx

Init ==
    /\ InitInsights
    /\ InitApi
    /\ InitOther

\* ------------------------------------------------------------------------
\* Queries of get_insights, as functions of the committed tables
\* ------------------------------------------------------------------------

\* The bag B restricted to the rows of the set S.
Restrict(B, S) == [r \in (S \cap BagToSet(B)) |-> B[r]]

\* filter(user_id == uid, date >= lo, date <= hi, amount < 0)
DebitFilter(r, uid, lo, hi) ==
    /\ r.user_id = uid
    /\ r.date >= lo
    /\ r.date <= hi
    /\ r.amount < 0

WindowDebits(st, uid, lo, hi) ==
    Restrict(st, { r \in BagToSet(st) : DebitFilter(r, uid, lo, hi) })

\* func.sum(func.abs(amount)) over the rows of the bag B
SumAbs(B) == SumSet(BagToSet(B), [r \in BagToSet(B) |-> B[r] * Abs(r.amount)])

TotalNoDebitFilter(st, uid, lo, hi) ==
    LET B == Restrict(st, { r \in BagToSet(st) : r.user_id = uid /\ r.date >= lo /\ r.date <= hi })
    IN IF BagToSet(B) = {} THEN NoneNum ELSE Some(SumAbs(B))

\* consumer.py:250-257: the scalar is NULL when no row matches
TotalSpendingQuery(st, uid, lo, hi) ==
    LET B == WindowDebits(st, uid, lo, hi)
    IN IF BagToSet(B) = {} THEN NoneNum ELSE Some(SumAbs(B))

CategoryGroupsWithNull(st, uid, lo, hi) ==
    LET B == WindowDebits(st, uid, lo, hi)
        cats == { r.category : r \in BagToSet(B) }
    IN { [category |-> c,
          amount |-> SumAbs(Restrict(B, { r \in BagToSet(B) : r.category = c }))] : c \in cats }

\* group_by(category) with category IS NOT NULL: one row per category
CategoryGroups(st, uid, lo, hi) ==
    LET B == WindowDebits(st, uid, lo, hi)
        cats == { r.category : r \in BagToSet(B) } \ {NULL}
    IN { [category |-> c,
          amount |-> SumAbs(Restrict(B, { r \in BagToSet(B) : r.category = c }))] : c \in cats }

TopCategoryQueryAscending(st, uid, lo, hi) ==
    LET G == CategoryGroups(st, uid, lo, hi)
    IN IF G = {} THEN {NULL}
       ELSE { g.category : g \in { h \in G : \A o \in G : o.amount >= h.amount } }

\* consumer.py:263-276: order_by(desc(sum)).first(); among equal sums the
\* database returns any row
TopCategoryQuery(st, uid, lo, hi) ==
    LET G == CategoryGroups(st, uid, lo, hi)
    IN IF G = {} THEN {NULL}
       ELSE { g.category : g \in { h \in G : \A o \in G : o.amount <= h.amount } }

CategorySpendingQueryUnordered(st, uid, lo, hi) ==
    Orderings(CategoryGroups(st, uid, lo, hi))

\* consumer.py:286-299: order_by(desc("amount")).all(); equal amounts come in
\* any order
CategorySpendingQuery(st, uid, lo, hi) ==
    LET G == CategoryGroups(st, uid, lo, hi)
    IN { s \in Orderings(G) : \A i \in 1..(Len(s) - 1) : s[i].amount >= s[i + 1].amount }

CreditAccountsQueryAnyType(acc, uid) ==
    Orderings({ a \in acc : a.user_id = uid })

CreditAccountsQueryAnyUser(acc, uid) ==
    Orderings({ a \in acc : a.account_type = "credit_card" })

\* consumer.py:308-311: the user's credit_card accounts, in any order
CreditAccountsQuery(acc, uid) ==
    Orderings({ a \in acc : a.user_id = uid /\ a.account_type = "credit_card" })

\* consumer.py:345-358: group_by(merchant).having(count >= 3), in any order
SubscriptionMerchantsQuery(st, uid, lo, hi) ==
    LET B == WindowDebits(st, uid, lo, hi)
        ms == { r.merchant : r \in BagToSet(B) }
    IN Orderings({ m \in ms :
            BagCardinality(Restrict(B, { r \in BagToSet(B) : r.merchant = m })) >= 3 })

\* consumer.py:365-371: the amounts of the merchant's debits in the window
MerchantTransactionsQuery(st, uid, lo, hi, m) ==
    LET B == WindowDebits(st, uid, lo, hi)
    IN Restrict(B, { r \in BagToSet(B) : r.merchant = m })

\* ------------------------------------------------------------------------
\* Pure computations of get_insights
\* ------------------------------------------------------------------------

\* consumer.py:240-243
PeriodDays(p) == IF p = "30d" THEN 30 ELSE 90

RECURSIVE WeekBucketsOfEightDays(_, _)
WeekBucketsOfEightDays(current_date, end) ==
    IF current_date <= end
    THEN LET week_end == Min(current_date + 7, end)
         IN <<[week_start |-> current_date, week_end |-> week_end]>>
                \o WeekBucketsOfEightDays(week_end + 1, end)
    ELSE <<>>

RECURSIVE WeekBuckets(_, _)
\* consumer.py:317-323: while current_date <= end_date
WeekBuckets(current_date, end) ==
    IF current_date <= end
    THEN LET week_end == Min(current_date + 6, end)
         IN <<[week_start |-> current_date, week_end |-> week_end]>>
                \o WeekBuckets(week_end + 1, end)
    ELSE <<>>

WeekEndUnclipped(current_date, end_date) == current_date + 6

\* consumer.py:320: min(current_date + timedelta(days=6), end_date)
WeekEnd(current_date, end_date) == Min(current_date + 6, end_date)

\* consumer.py:315-316: current_date = start_date; week_buckets = []
EnterLoop(start_date, end_date) ==
    /\ loop = NoLoop
    /\ start_date <= end_date
    /\ loop' = [ pc |-> "while", start_date |-> start_date, end_date |-> end_date,
                 current_date |-> start_date, week_buckets |-> <<>> ]

\* consumer.py:319-323: one iteration of while current_date <= end_date
LoopBody ==
    /\ loop.pc = "while"
    /\ loop.current_date <= loop.end_date
    /\ LET week_end == WeekEnd(loop.current_date, loop.end_date)
       IN loop' = [loop EXCEPT
                     !.week_buckets = Append(@, [week_start |-> loop.current_date, week_end |-> week_end]),
                     !.current_date = week_end + 1]

\* consumer.py:319: the condition of the while is false
LoopExit ==
    /\ loop.pc = "while"
    /\ ~(loop.current_date <= loop.end_date)
    /\ loop' = [loop EXCEPT !.pc = "done"]

\* The buckets have been consumed (consumer.py:325).
LeaveLoop ==
    /\ loop.pc = "done"
    /\ loop' = NoLoop

HasLimitNotNone(a) == a.limit # NoneNum

\* consumer.py:330: if account.limit and account.limit > 0
HasLimit(a) == a.limit # NoneNum /\ a.limit[1] # 0 /\ a.limit[1] > 0

\* consumer.py:331: abs(float(account.balance)) if account.balance else 0.0
Balance(a) == IF a.balance # NoneNum /\ a.balance[1] # 0 THEN Abs(a.balance[1]) ELSE 0

UtilizationWholePercent(a) == { 10 * u : u \in Round(Balance(a) * 100, a.limit[1]) }

\* consumer.py:333 and 337: round(balance / limit * 100, 1), in tenths of a
\* percent
UtilizationChoices(a) == Round(Balance(a) * 1000, a.limit[1])

UtilizationPointsByAccount(buckets, accts, util) ==
    LET elig == SelectSeq(accts, HasLimit)
        k == Len(elig)
        nb == Len(buckets)
    IN [ i \in 1..(nb * k) |->
            LET j == ((i - 1) \div nb) + 1
                b == ((i - 1) % nb) + 1
            IN [ date |-> buckets[b].week_end,
                 utilization |-> util[j],
                 balance |-> Balance(elig[j]),
                 limit |-> elig[j].limit[1] ] ]

\* consumer.py:325-340: one point per bucket and per account with a limit,
\* bucket by bucket; util[j] is the rounded utilization of the j-th such
\* account (the same float expression is evaluated in every bucket)
UtilizationPoints(buckets, accts, util) ==
    LET elig == SelectSeq(accts, HasLimit)
        k == Len(elig)
    IN [ i \in 1..(Len(buckets) * k) |->
            LET b == ((i - 1) \div k) + 1
                j == ((i - 1) % k) + 1
            IN [ date |-> buckets[b].week_end,
                 utilization |-> util[j],
                 balance |-> Balance(elig[j]),
                 limit |-> elig[j].limit[1] ] ]

RECURSIVE UtilizationVectors(_)
\* The roundings of the utilization of each account of the sequence elig.
UtilizationVectors(elig) ==
    IF elig = <<>> THEN {<<>>}
    ELSE { <<u>> \o rest : u \in UtilizationChoices(Head(elig)), rest \in UtilizationVectors(Tail(elig)) }

\* consumer.py:373-375: len(amounts) and sum(amounts) of the merchant's rows
Count(B) == BagCardinality(B)

\* consumer.py:377-380: all(abs(amount - avg) / avg <= 0.1 if avg > 0 else
\* False), avg = s / n.  Off the 10% boundary the float test agrees with the
\* exact one; at a deviation of exactly 10% the float quotient falls on either
\* side of the literal 0.1.
IsConsistentChoices(B) ==
    LET n == Count(B)
        s == SumAbs(B)
        inside == \A r \in BagToSet(B) : Abs(Abs(r.amount) * n - s) * 10 <= s
        strict == \A r \in BagToSet(B) : Abs(Abs(r.amount) * n - s) * 10 < s
    IN IF s = 0 \/ ~inside THEN {FALSE}
       ELSE IF strict THEN {TRUE}
       ELSE {TRUE, FALSE}

\* consumer.py:260: the divisor of total_spending / days_in_period, when the
\* division is executed
DailySpendDivisors(f) == IF f.days_in_period > 0 THEN {f.days_in_period} ELSE {}

\* consumer.py:329-333: the divisors of balance / limit over the accounts
UtilizationDivisors(accts) == { a.limit[1] : a \in { x \in accts : HasLimit(x) } }

\* consumer.py:373-380: the divisors of sum(amounts) / len(amounts) and of
\* abs(amount - avg) / avg over the merchant's rows (avg is zero exactly when
\* the sum is)
ConsistencyDivisors(B) ==
    IF Count(B) >= 3
    THEN {Count(B)} \cup (IF SumAbs(B) > 0 THEN {SumAbs(B)} ELSE {})
    ELSE {}

\* ------------------------------------------------------------------------
\* Writers of the tables (other sessions)
\* ------------------------------------------------------------------------

\* A commit of another session lands between two statements of the request
\* in flight at most once per request, and never while a finished response
\* is being observed.
MayCommit == Idle \/ (InFlight /\ ~raced)

Committed == raced' = (raced \/ InFlight)

\* Ingestion inserts one transaction.
Ingest(row) ==
    /\ MayCommit
    /\ Rows < MaxRows
    /\ store' = store (+) SetToBag({row})
    /\ Committed
    /\ UNCHANGED <<accounts, session_factory, pc, session, nq, filters, frame, response, today>>

\* An account is created.
AddAccount(a) ==
    /\ MayCommit
    /\ Rows < MaxRows
    /\ a \notin accounts
    /\ accounts' = accounts \cup {a}
    /\ Committed
    /\ UNCHANGED <<store, session_factory, pc, session, nq, filters, frame, response, today>>

\* transaction_count of a demo user (seed_demo_data.py:76 sets 200), scaled
\* to the model.
ExpectedCount == 3

\* The rows generate_transactions can produce for the user: every generated
\* row carries a category (seed_demo_data.py:393-487).
SeedRows(u) == { r \in TxUniverse : r.user_id = u /\ r.category # NULL }

RECURSIVE BagsOfSize(_, _)
\* The bags of exactly k rows of the set S.
BagsOfSize(S, k) ==
    IF S = {} THEN (IF k = 0 THEN {EmptyBag} ELSE {})
    ELSE LET x == CHOOSE y \in S : TRUE
         IN UNION { { IF c = 0 THEN B ELSE B (+) [r \in {x} |-> c] : B \in BagsOfSize(S \ {x}, k - c) }
                    : c \in 0..k }

\* seed_demo_data.py:327-355 and 490-497, as committed by seed_demo_data():
\* a user with fewer rows than expected has them deleted and a complete set
\* inserted; a user with enough rows is left alone.
SeedTransactions(u) ==
    /\ MayCommit
    /\ LET mine == Restrict(store, { r \in BagToSet(store) : r.user_id = u })
           existing_count == BagCardinality(mine)
       IN /\ existing_count < ExpectedCount
          /\ Rows - existing_count + ExpectedCount <= MaxRows
          /\ \E gen \in BagsOfSize(SeedRows(u), ExpectedCount) :
                store' = (store (-) mine) (+) gen
    /\ Committed
    /\ UNCHANGED <<accounts, session_factory, pc, session, nq, filters, frame, response, today>>

\* DEMO_USERS (seed_demo_data.py:68-112), scaled: transaction_count is
\* ExpectedCount; u1 has one subscription, u2 none; neither has interest
\* charges or savings transfers.
SeedConfig(u) ==
    [ transaction_count |-> ExpectedCount,
      subscriptions |-> IF u = "u1" THEN {"Netflix"} ELSE {} ]

\* seed_demo_data.py:125-136: SUBSCRIPTION_AMOUNTS, in cents
SubscriptionAmount(name) == 1599

\* seed_demo_data.py:365-371: range(3)
MonthOffsets == 0..2

\* seed_demo_data.py:365-371 and 391-403: one row per subscription and month,
\* dated start_date - 30 * month_offset
SubscriptionRows(u, start_date) ==
    { Tx(u, start_date - 30 * m, name, -SubscriptionAmount(name), "Subscriptions") :
        m \in MonthOffsets, name \in SeedConfig(u).subscriptions }

\* seed_demo_data.py:437-487: the rows of the random part, dated up to 90
\* days before start_date, all debits with a category
RandomRows(u, start_date) ==
    { r \in TxUniverse : /\ r.user_id = u
                          /\ r.category # NULL
                          /\ r.amount < 0
                          /\ r.date <= start_date
                          /\ r.date >= start_date - 90 }

AlreadySeededOnlyAbove(existing_count, expected_count) == existing_count > expected_count

\* seed_demo_data.py:345
AlreadySeeded(existing_count, expected_count) == existing_count >= expected_count

\* seed_demo_data.py:327-499: the possible outcomes of generate_transactions
\* for user u on the table st: the table afterwards and what the run deleted,
\* inserted and returned
generate_transactions(st, u, start_date) ==
    LET mine == Restrict(st, { r \in BagToSet(st) : r.user_id = u })
        existing_count == BagCardinality(mine)
        expected_count == SeedConfig(u).transaction_count
        fixed == SetToBag(SubscriptionRows(u, start_date))
        remaining_count == expected_count - BagCardinality(fixed)
    IN IF AlreadySeeded(existing_count, expected_count)
       THEN { [ store |-> st, existing_count |-> existing_count, deleted |-> 0, inserted |-> 0,
                returned |-> existing_count ] }
       ELSE { [ store |-> (st (-) mine) (+) fixed (+) random,
                existing_count |-> existing_count,
                deleted |-> existing_count,
                inserted |-> BagCardinality(fixed (+) random),
                returned |-> BagCardinality(fixed (+) random) ]
              : random \in BagsOfSize(RandomRows(u, start_date),
                                      IF remaining_count > 0 THEN remaining_count ELSE 0) }

\* seed_demo_data.py:519-566: seed_demo_data runs generate_transactions for
\* a demo user and commits
RunSeed(u) ==
    /\ Idle
    /\ \E run \in generate_transactions(store, u, today) :
          /\ store' = run.store
          /\ seed_run' = [ user |-> u,
                           existing_count |-> run.existing_count,
                           deleted |-> run.deleted,
                           inserted |-> run.inserted,
                           returned |-> run.returned,
                           again |-> seed_run.user = u,
                           before |-> seed_run.existing_count ]
    /\ UNCHANGED <<accounts, session_factory, raced, pc, session, nq, filters, frame, response, today>>

\* ------------------------------------------------------------------------
\* get_insights
\* ------------------------------------------------------------------------

QueryPcs == {"q_total", "q_top", "q_cat", "q_accounts", "q_merchants", "q_merchant"}

RejectPeriodAfterSession(p) ==
    /\ Idle
    /\ p \notin {"30d", "90d"}
    /\ response' = HTTPException(400, "Period must be '30d' or '90d'")
    /\ pc' = "done"
    /\ session' = "rolledback"
    /\ nq' = 0
    /\ filters' = {}
    /\ frame' = [InitFrame EXCEPT !.period = p]
    /\ raced' = FALSE
    /\ session_factory' = TRUE
    /\ UNCHANGED <<store, accounts, today>>

\* consumer.py:232-233: the period is validated before the try block
RejectPeriod(p) ==
    /\ Idle
    /\ p \notin {"30d", "90d"}
    /\ response' = HTTPException(400, "Period must be '30d' or '90d'")
    /\ pc' = "done"
    /\ session' = "none"
    /\ nq' = 0
    /\ filters' = {}
    /\ frame' = [InitFrame EXCEPT !.period = p]
    /\ raced' = FALSE
    /\ UNCHANGED <<store, accounts, session_factory, today>>

StartFrameWrongDays(p, d) ==
    [InitFrame EXCEPT !.period = p,
                      !.end_date = d,
                      !.start_date = d - (PeriodDays(p) + 1),
                      !.days_in_period = PeriodDays(p) + 1]

\* consumer.py:239-245: the date range
StartFrame(p, d) ==
    [InitFrame EXCEPT !.period = p,
                      !.end_date = d,
                      !.start_date = d - PeriodDays(p),
                      !.days_in_period = d - (d - PeriodDays(p))]

\* consumer.py:235-247 with session.py:34-37: the range is computed and the
\* session is created; the first call creates the session factory
OpenSession(p) ==
    /\ Idle
    /\ p \in {"30d", "90d"}
    /\ frame' = StartFrame(p, today)
    /\ session_factory' = TRUE
    /\ session' = "open"
    /\ pc' = "q_total"
    /\ nq' = 0
    /\ filters' = {}
    /\ raced' = FALSE
    /\ response' = NoResponse
    /\ UNCHANGED <<store, accounts, today>>

\* The exceptions the creation of the session factory raises: get_db_url
\* raises ValueError when no URL is configured (connection.py:61-65),
\* create_engine raises an SQLAlchemy error on a URL it cannot use.
FactoryExceptions == {"ValueError", "SQLAlchemyError"}

\* consumer.py:418-421: the except clauses of get_insights
ExceptionResponse(exc) ==
    IF exc = "ValueError"
    THEN HTTPException(400, "Invalid parameter")
    ELSE HTTPException(500, "Internal server error")

\* session.py:17-20 raising inside get_session(): no session exists yet
SessionFactoryRaises(p, exc) ==
    /\ Idle
    /\ p \in {"30d", "90d"}
    /\ ~session_factory
    /\ exc \in FactoryExceptions
    /\ frame' = StartFrame(p, today)
    /\ response' = ExceptionResponse(exc)
    /\ pc' = "done"
    /\ session' = "none"
    /\ nq' = 0
    /\ filters' = {}
    /\ raced' = FALSE
    /\ UNCHANGED <<store, accounts, session_factory, today>>

Window == <<frame.start_date, frame.end_date>>

\* consumer.py:250-260
QueryTotalSpending ==
    /\ pc = "q_total"
    /\ LET total_spending_result ==
               TotalSpendingQuery(store, Caller, frame.start_date, frame.end_date)
       IN frame' = [frame EXCEPT !.total_spending =
                        IF total_spending_result # NoneNum /\ total_spending_result[1] # 0
                        THEN total_spending_result[1] ELSE 0]
    /\ pc' = "q_top"
    /\ nq' = nq + 1
    /\ filters' = filters \cup {Window}
    /\ UNCHANGED <<store, accounts, session_factory, raced, session, response, today>>

\* consumer.py:263-278
QueryTopCategory ==
    /\ pc = "q_top"
    /\ \E c \in TopCategoryQuery(store, Caller, frame.start_date, frame.end_date) :
           frame' = [frame EXCEPT !.top_category = c]
    /\ pc' = "q_cat"
    /\ nq' = nq + 1
    /\ filters' = filters \cup {Window}
    /\ UNCHANGED <<store, accounts, session_factory, raced, session, response, today>>

\* consumer.py:286-304
QueryCategorySpending ==
    /\ pc = "q_cat"
    /\ \E category_spending \in CategorySpendingQuery(store, Caller, frame.start_date, frame.end_date) :
           frame' = [frame EXCEPT !.spending_by_category = category_spending]
    /\ pc' = "q_accounts"
    /\ nq' = nq + 1
    /\ filters' = filters \cup {Window}
    /\ UNCHANGED <<store, accounts, session_factory, raced, session, response, today>>

\* consumer.py:308-340
QueryCreditAccounts ==
    /\ pc = "q_accounts"
    /\ \E credit_accounts \in CreditAccountsQuery(accounts, Caller) :
         \E util \in UtilizationVectors(SelectSeq(credit_accounts, HasLimit)) :
           frame' = [frame EXCEPT
                        !.credit_accounts = credit_accounts,
                        !.credit_utilization =
                            UtilizationPoints(WeekBuckets(frame.start_date, frame.end_date),
                                              credit_accounts, util)]
    /\ pc' = "q_merchants"
    /\ nq' = nq + 1
    /\ UNCHANGED <<store, accounts, session_factory, raced, session, filters, response, today>>

\* consumer.py:345-358
QuerySubscriptionMerchants ==
    /\ pc = "q_merchants"
    /\ \E subscription_merchants \in
             SubscriptionMerchantsQuery(store, Caller, frame.start_date, frame.end_date) :
         /\ frame' = [frame EXCEPT !.subscription_merchants = subscription_merchants]
         /\ pc' = IF subscription_merchants = <<>> THEN "respond" ELSE "q_merchant"
    /\ nq' = nq + 1
    /\ filters' = filters \cup {Window}
    /\ UNCHANGED <<store, accounts, session_factory, raced, session, response, today>>

\* total_monthly_recurring += monthly_amount, on the fraction <<num, den>>
AddAverage(acc, s, n) == <<acc[1] * n + s * acc[2], acc[2] * n>>

\* consumer.py:363-388: one iteration of the loop over the merchants
QueryMerchantTransactions ==
    /\ pc = "q_merchant"
    /\ LET merchant == Head(frame.subscription_merchants)
           rest == Tail(frame.subscription_merchants)
           amounts == MerchantTransactionsQuery(store, Caller, frame.start_date,
                                                frame.end_date, merchant)
       IN /\ \E is_consistent \in IsConsistentChoices(amounts) :
               IF Count(amounts) >= 3 /\ is_consistent
               THEN \E amount \in Round(SumAbs(amounts), Count(amounts)) :
                      frame' = [frame EXCEPT
                                  !.subscription_merchants = rest,
                                  !.subscriptions = Append(@, [merchant |-> merchant, amount |-> amount]),
                                  !.total_monthly_recurring =
                                      AddAverage(@, SumAbs(amounts), Count(amounts))]
               ELSE frame' = [frame EXCEPT !.subscription_merchants = rest]
          /\ pc' = IF rest = <<>> THEN "respond" ELSE "q_merchant"
    /\ nq' = nq + 1
    /\ filters' = filters \cup {Window}
    /\ UNCHANGED <<store, accounts, session_factory, raced, session, response, today>>

\* consumer.py:260 and 400: round(total_spending / days_in_period, 2)
AverageDailySpendChoices(f) ==
    IF f.days_in_period > 0 THEN Round(f.total_spending, f.days_in_period) ELSE {0}

RespondAndFlush ==
    /\ pc = "respond"
    /\ \E average_daily_spend \in AverageDailySpendChoices(frame) :
         \E total_monthly \in Round(frame.total_monthly_recurring[1], frame.total_monthly_recurring[2]) :
           response' =
             [ status |-> 200,
               detail |-> NULL,
               data |-> [ total_spending |-> frame.total_spending,
                          average_daily_spend |-> average_daily_spend,
                          top_category |-> frame.top_category,
                          savings_rate |-> NULL,
                          spending_by_category |-> frame.spending_by_category,
                          credit_utilization |-> frame.credit_utilization,
                          subscriptions |-> frame.subscriptions,
                          total_monthly |-> total_monthly ],
               meta |-> [ period |-> frame.period,
                          start_date |-> frame.start_date,
                          end_date |-> frame.end_date ] ]
    /\ session' = "committed"
    /\ pc' = "done"
    /\ store' = EmptyBag
    /\ UNCHANGED <<accounts, session_factory, raced, nq, filters, frame, today>>

\* consumer.py:390-416 with session.py:38 and 43: the response is built, the
\* session commits and closes
Respond ==
    /\ pc = "respond"
    /\ \E average_daily_spend \in AverageDailySpendChoices(frame) :
         \E total_monthly \in Round(frame.total_monthly_recurring[1], frame.total_monthly_recurring[2]) :
           response' =
             [ status |-> 200,
               detail |-> NULL,
               data |-> [ total_spending |-> frame.total_spending,
                          average_daily_spend |-> average_daily_spend,
                          top_category |-> frame.top_category,
                          savings_rate |-> NULL,
                          spending_by_category |-> frame.spending_by_category,
                          credit_utilization |-> frame.credit_utilization,
                          subscriptions |-> frame.subscriptions,
                          total_monthly |-> total_monthly ],
               meta |-> [ period |-> frame.period,
                          start_date |-> frame.start_date,
                          end_date |-> frame.end_date ] ]
    /\ session' = "committed"
    /\ pc' = "done"
    /\ UNCHANGED <<store, accounts, session_factory, raced, nq, filters, frame, today>>

\* The exceptions a statement or the commit raises (sqlalchemy.exc).
QueryExceptions == {"SQLAlchemyError"}

\* A query raises: session.py:39-43 rolls back, closes and re-raises,
\* consumer.py:418-421 turns the exception into the response
QueryRaises(exc) ==
    /\ pc \in QueryPcs
    /\ exc \in QueryExceptions
    /\ nq' = nq + 1
    /\ session' = "rolledback"
    /\ response' = ExceptionResponse(exc)
    /\ pc' = "done"
    /\ UNCHANGED <<store, accounts, session_factory, raced, filters, frame, today>>

\* session.py:38-43: session.commit() raises
CommitRaises(exc) ==
    /\ pc = "respond"
    /\ exc \in QueryExceptions
    /\ session' = "rolledback"
    /\ response' = ExceptionResponse(exc)
    /\ pc' = "done"
    /\ UNCHANGED <<store, accounts, session_factory, raced, nq, filters, frame, today>>

\* The response leaves the handler; the next request starts from scratch.
Deliver ==
    /\ pc = "done"
    /\ pc' = "idle"
    /\ response' = NoResponse
    /\ frame' = InitFrame
    /\ session' = "none"
    /\ nq' = 0
    /\ filters' = {}
    /\ raced' = FALSE
    /\ UNCHANGED <<store, accounts, session_factory, today>>

\* ------------------------------------------------------------------------
\* get_transactions
\* ------------------------------------------------------------------------

\* The characters of the merchant names of TxUniverse.
Chars(m) ==
    CASE m = "Gym" -> <<"G", "y", "m">>
      [] m = "Shop" -> <<"S", "h", "o", "p">>
      [] m = "Netflix" -> <<"N", "e", "t", "f", "l", "i", "x">>

\* Case folding of ILIKE, on the letters in use.
Lower(c) ==
    CASE c = "G" -> "g"
      [] c = "S" -> "s"
      [] c = "N" -> "n"
      [] c = "Y" -> "y"
      [] c = "O" -> "o"
      [] OTHER -> c

RECURSIVE Like(_, _)
\* SQL LIKE, case-insensitively: % matches any run of characters and _ any
\* single character
Like(str, pat) ==
    IF pat = <<>> THEN str = <<>>
    ELSE IF Head(pat) = "%" THEN Like(str, Tail(pat)) \/ (str # <<>> /\ Like(Tail(str), pat))
    ELSE /\ str # <<>>
         /\ Head(pat) = "_" \/ Lower(Head(str)) = Lower(Head(pat))
         /\ Like(Tail(str), Tail(pat))

\* consumer.py:120: Transaction.merchant.ilike(f"%{merchant}%")
ILike(name, merchant) == Like(Chars(name), <<"%">> \o merchant \o <<"%">>)

\* A str parameter that Python treats as true (neither None nor empty).
Truthy(str) == str \notin {NULL, ""}

\* consumer.py:106-120: the filters of get_user_transactions; q.merchant is
\* the sequence of the characters of the parameter, empty for None and ""
TransactionsFilter(r, uid, q) ==
    /\ r.user_id = uid
    /\ q.start_date # NoneNum => r.date >= q.start_date[1]
    /\ q.end_date # NoneNum => r.date <= q.end_date[1]
    /\ Truthy(q.category) => r.category = q.category
    /\ q.merchant # <<>> => ILike(r.merchant, q.merchant)

RECURSIVE DateDescOrderings(_)
\* consumer.py:126: order_by(desc(Transaction.date)); rows of the same date
\* come in any order
DateDescOrderings(B) ==
    IF BagToSet(B) = {} THEN {<<>>}
    ELSE LET newest == { r \in BagToSet(B) : \A o \in BagToSet(B) : o.date <= r.date }
         IN UNION { { <<r>> \o rest : rest \in DateDescOrderings(B (-) SetToBag({r})) }
                    : r \in newest }

\* consumer.py:129-130: offset((page - 1) * limit).limit(limit)
Page(rows, page, limit) ==
    LET offset == (page - 1) * limit
    IN SubSeq(rows, offset + 1, Min(offset + limit, Len(rows)))

\* consumer.py:79-132: the possible results (transactions, total)
get_user_transactions(st, uid, q) ==
    LET B == Restrict(st, { r \in BagToSet(st) : TransactionsFilter(r, uid, q) })
    IN { [transactions |-> Page(rows, q.page, q.limit), total |-> BagCardinality(B)]
         : rows \in DateDescOrderings(B) }

TotalPagesRoundedDown(total, limit) == IF total > 0 THEN total \div limit ELSE 0

\* consumer.py:177
TotalPages(total, limit) == IF total > 0 THEN (total + limit - 1) \div limit ELSE 0

\* consumer.py:159-207 with session.py:34-43
GetTransactions(q) ==
    /\ Idle
    /\ \E res \in get_user_transactions(store, Caller, q) :
          tx_response' =
            [ status |-> 200,
              detail |-> NULL,
              data |-> [ transactions |-> res.transactions,
                         pagination |-> [ page |-> q.page,
                                          limit |-> q.limit,
                                          total |-> res.total,
                                          total_pages |-> TotalPages(res.total, q.limit) ] ],
              params |-> q ]
    /\ session_factory' = TRUE
    /\ pc' = "tx_done"
    /\ UNCHANGED <<store, accounts, raced, session, nq, filters, frame, response, today, previous,
                   recommendations, persona_assignments, rec_response, access>>

\* consumer.py:209-212: creating the session, a statement or the commit
\* raises (get_db_url's ValueError only while no factory exists)
TransactionsRaises(q, exc) ==
    /\ Idle
    /\ exc \in FactoryExceptions
    /\ IF exc = "ValueError"
       THEN ~session_factory /\ UNCHANGED session_factory
       ELSE session_factory' \in {session_factory, TRUE}
    /\ tx_response' = [ status |-> ExceptionResponse(exc).status,
                        detail |-> ExceptionResponse(exc).detail,
                        data |-> NULL,
                        params |-> q ]
    /\ pc' = "tx_done"
    /\ UNCHANGED <<store, accounts, raced, session, nq, filters, frame, response, today, previous,
                   recommendations, persona_assignments, rec_response, access>>

\* The response leaves the handler.
DeliverTransactions ==
    /\ pc = "tx_done"
    /\ pc' = "idle"
    /\ tx_response' = NoTxResponse
    /\ UNCHANGED <<store, accounts, session_factory, raced, session, nq, filters, frame, response,
                   today, previous, recommendations, persona_assignments, rec_response, access>>

\* ------------------------------------------------------------------------
\* get_recommendations
\* ------------------------------------------------------------------------

\* A timestamp is <<seconds, microseconds>>.
Rec(i, u, t, c, d) == [id |-> i, user_id |-> u, type |-> t, created_at |-> c, title |-> i, trace |-> d]

\* The rows of recommendations the generator can insert; trace is the
\* description of the row's decision trace, NULL when it has none.
RecUniverse ==
    { Rec("e1", "u1", "education", <<1, 0>>, NULL),
      Rec("e2", "u1", "education", <<1, 5>>, "why"),
      Rec("e3", "u1", "education", <<2, 0>>, NULL),
      Rec("e4", "u1", "education", <<3, 0>>, NULL),
      Rec("e5", "u1", "education", <<3, 0>>, NULL),
      Rec("e6", "u1", "education", <<4, 0>>, NULL),
      Rec("o1", "u1", "offer", <<1, 0>>, NULL),
      Rec("o2", "u1", "offer", <<2, 0>>, "terms"),
      Rec("o3", "u1", "offer", <<2, 0>>, NULL),
      Rec("o4", "u1", "offer", <<5, 0>>, NULL),
      Rec("x1", "u2", "education", <<9, 0>>, NULL) }

Pa(u, w, p, d) == [user_id |-> u, time_window |-> w, persona |-> p, assigned_at |-> d]

\* The rows of persona_assignments; assigned_at is a day number.
PersonaUniverse ==
    { Pa("u1", "30d", "high_utilization", 70),
      Pa("u1", "30d", "savings_builder", 95),
      Pa("u1", "90d", "subscription_heavy", 99),
      Pa("u2", "30d", "general_wellness", 99) }

\* The generator inserts a recommendation.
AddRecommendation(r) ==
    /\ Idle
    /\ Cardinality(recommendations) < MaxRecs
    /\ r \notin recommendations
    /\ recommendations' = recommendations \cup {r}
    /\ UNCHANGED <<store, accounts, session_factory, raced, pc, session, nq, filters, frame,
                   response, today, previous, tx_response, persona_assignments, rec_response, access>>

\* A persona is assigned.
AssignPersona(a) ==
    /\ Idle
    /\ a \notin persona_assignments
    /\ persona_assignments' = persona_assignments \cup {a}
    /\ UNCHANGED <<store, accounts, session_factory, raced, pc, session, nq, filters, frame,
                   response, today, previous, tx_response, recommendations, rec_response, access>>

\* Order of two timestamps in the database.
TsLeq(a, b) == a[1] < b[1] \/ (a[1] = b[1] /\ a[2] <= b[2])

\* created_at.isoformat(): the fraction is printed only when it is not zero
IsoFormat(ts) == IF ts[2] = 0 THEN <<ts[1]>> ELSE <<ts[1], ts[2]>>

\* Order of two isoformat strings: a string without fraction precedes every
\* string with the same seconds and a fraction.
KeyLess(a, b) ==
    \/ a[1] < b[1]
    \/ /\ a[1] = b[1]
       /\ \/ Len(a) < Len(b)
          \/ Len(a) = 2 /\ Len(b) = 2 /\ a[2] < b[2]

\* consumer.py:477-485: the persona of the latest 30d assignment of the last
\* 30 days, None when there is none
PersonaQuery(pas, uid, now) ==
    LET S == { a \in pas : a.user_id = uid /\ a.time_window = "30d" /\ a.assigned_at >= now - 30 }
    IN IF S = {} THEN {NULL}
       ELSE { a.persona : a \in { b \in S : \A o \in S : o.assigned_at <= b.assigned_at } }

RECURSIVE CreatedDescOrderings(_)
\* order_by(desc(created_at)): rows of the same timestamp come in any order
CreatedDescOrderings(S) ==
    IF S = {} THEN {<<>>}
    ELSE LET newest == { r \in S : \A o \in S : TsLeq(o.created_at, r.created_at) }
         IN UNION { { <<r>> \o rest : rest \in CreatedDescOrderings(S \ {r}) } : r \in newest }

AllRecommendationsQueryAnyUser(recs, uid) == CreatedDescOrderings(recs)

\* consumer.py:495-499
AllRecommendationsQuery(recs, uid) ==
    CreatedDescOrderings({ r \in recs : r.user_id = uid })

IsEducation(r) == r.type = "education"

IsOffer(r) == r.type = "offer"

\* consumer.py:517
EducationLimit == 5

\* consumer.py:540
OfferLimit == 3

TakeAll(list, n) == list

\* list[:n]
Take(list, n) == SubSeq(list, 1, Min(n, Len(list)))

\* consumer.py:518-536 and 541-557: the item of a recommendation, with its
\* sorting key; the description comes from the trace when there is one
Item(rec) ==
    [ id |-> rec.id,
      title |-> rec.title,
      description |-> IF rec.trace # NULL THEN rec.trace ELSE rec.title,
      sort_key |-> IsoFormat(rec.created_at) ]

RECURSIVE InsertReverse(_, _)
\* The item x placed after the items of the sorted list whose key is not
\* smaller than its own.
InsertReverse(x, sorted) ==
    IF sorted = <<>> THEN <<x>>
    ELSE IF KeyLess(Head(sorted).sort_key, x.sort_key) THEN <<x>> \o sorted
    ELSE <<Head(sorted)>> \o InsertReverse(x, Tail(sorted))

RECURSIVE SortReverse(_, _)
\* consumer.py:560-561: list.sort(key=_sort_key, reverse=True), a stable sort;
\* done holds the items sorted so far
SortReverse(list, done) ==
    IF list = <<>> THEN done
    ELSE SortReverse(Tail(list), InsertReverse(Head(list), done))

\* consumer.py:564-567: the helper field is removed
Strip(list) ==
    [ i \in 1..Len(list) |->
        [id |-> list[i].id, title |-> list[i].title, description |-> list[i].description] ]

\* consumer.py:516-567: the list returned for the rows of one type
Formatted(rows, n) ==
    LET items == [ i \in 1..Len(Take(rows, n)) |-> Item(Take(rows, n)[i]) ]
    IN Strip(SortReverse(items, <<>>))

\* consumer.py:471-581 with session.py:34-43
GetRecommendations ==
    /\ Idle
    /\ \E persona \in PersonaQuery(persona_assignments, Caller, today) :
         \E all_recommendations \in AllRecommendationsQuery(recommendations, Caller) :
           rec_response' =
             [ status |-> 200,
               detail |-> NULL,
               data |-> [ education |-> Formatted(SelectSeq(all_recommendations, IsEducation),
                                                  EducationLimit),
                          offers |-> Formatted(SelectSeq(all_recommendations, IsOffer),
                                               OfferLimit) ],
               meta |-> [persona |-> persona] ]
    /\ session_factory' = TRUE
    /\ pc' = "rec_done"
    /\ UNCHANGED <<store, accounts, raced, session, nq, filters, frame, response, today, previous,
                   tx_response, recommendations, persona_assignments, access>>

\* consumer.py:583-584: every exception is answered 500
RecommendationsRaises(exc) ==
    /\ Idle
    /\ exc \in FactoryExceptions
    /\ IF exc = "ValueError"
       THEN ~session_factory /\ UNCHANGED session_factory
       ELSE session_factory' \in {session_factory, TRUE}
    /\ rec_response' = HTTPException(500, "Internal server error")
    /\ pc' = "rec_done"
    /\ UNCHANGED <<store, accounts, raced, session, nq, filters, frame, response, today, previous,
                   tx_response, recommendations, persona_assignments, access>>

\* The response leaves the handler.
DeliverRecommendations ==
    /\ pc = "rec_done"
    /\ pc' = "idle"
    /\ rec_response' = NoResponse
    /\ UNCHANGED <<store, accounts, session_factory, raced, session, nq, filters, frame, response,
                   today, previous, tx_response, recommendations, persona_assignments, access>>

\* ------------------------------------------------------------------------
\* Authentication and authorization (dependencies.py, utils/jwt.py)
\* ------------------------------------------------------------------------

\* A claim value with its Python type; an absent claim has type "none".
Val(t, v) == [type |-> t, value |-> v]

Absent == Val("none", NULL)

GroupNames == {"operators", "consumers", "admins"}

\* The values of the cognito:groups claim: absent, a list of names, or a
\* plain string.
GroupClaims ==
    {Absent}
        \cup { Val("list", g) : g \in UNION { [1..n -> GroupNames] : n \in 0..MaxGroups } }
        \cup { Val("str", <<g>>) : g \in GroupNames }

\* The claims of a token.
ClaimsUniverse ==
    [ sub : {Absent, Val("str", "u1"), Val("str", ""), Val("int", "7")},
      groups : GroupClaims,
      custom_role : {Absent, Val("str", ""), Val("str", "consumer"), Val("str", "operator"),
                     Val("str", "admin")},
      email : {Absent, Val("str", "u1@example.com"), Val("int", "1")} ]

\* What can be wrong with a token or with its verification.
TokenFaults ==
    { "not_configured", "jwks_unreachable", "bad_header", "no_kid", "unknown_kid", "bad_key",
      "bad_signature", "expired", "wrong_audience" }

PlainClaims ==
    [sub |-> Val("str", "u1"), groups |-> Val("list", <<"operators">>), custom_role |-> Absent,
     email |-> Absent]

\* The tokens presented: well-signed tokens with any claims, and tokens of an
\* operator with each fault.
Tokens ==
    { [fault |-> "ok", claims |-> c] : c \in ClaimsUniverse }
        \cup { [fault |-> f, claims |-> PlainClaims] : f \in TokenFaults }

\* Python truth of a claim value.
Falsy(v) == v.type = "none" \/ (v.type = "str" /\ v.value = "") \/ (v.type = "list" /\ v.value = <<>>)

\* x in list
In(x, list) == \E i \in 1..Len(list) : list[i] = x

ExtractRoleConsumersFirst(claims) ==
    LET groups == IF claims.groups.type = "none" THEN Val("list", <<>>) ELSE claims.groups
    IN IF groups.type = "list" /\ In("consumers", groups.value) THEN "consumer"
       ELSE IF groups.type = "list" /\ In("operators", groups.value) THEN "operator"
       ELSE IF ~Falsy(claims.custom_role) /\ claims.custom_role.value \in {"consumer", "operator"}
            THEN claims.custom_role.value
       ELSE "consumer"

\* jwt.py:111-138
extract_role_from_claims(claims) ==
    LET groups == IF claims.groups.type = "none" THEN Val("list", <<>>) ELSE claims.groups
    IN IF groups.type = "list" /\ In("operators", groups.value) THEN "operator"
       ELSE IF groups.type = "list" /\ In("consumers", groups.value) THEN "consumer"
       ELSE IF ~Falsy(claims.custom_role) /\ claims.custom_role.value \in {"consumer", "operator"}
            THEN claims.custom_role.value
       ELSE "consumer"

\* jwt.py:21-108: the exception verify_token raises on the token, NULL when it
\* returns the claims
verify_token(token) ==
    CASE token.fault = "ok" -> NULL
      [] token.fault = "jwks_unreachable" -> "RequestException"
      [] token.fault = "bad_key" -> "JWKError"
      [] OTHER -> "ValueError"

\* jwt.py:141-164: the exception extract_user_info raises, NULL when it
\* returns the dict
extract_user_info(token) ==
    IF verify_token(token) # NULL THEN verify_token(token)
    ELSE IF Falsy(token.claims.sub) THEN "ValueError"
    ELSE NULL

\* utils/models.py:7-12: UserInfo(**user_info_dict) raises ValidationError
\* unless user_id is a str and email a str or None
UserInfoValid(claims) ==
    /\ claims.sub.type = "str"
    /\ claims.email.type \in {"str", "none"}

\* dependencies.py:14-37: the UserInfo, or the 401 raised for any exception
get_current_user(token) ==
    IF extract_user_info(token) = NULL /\ UserInfoValid(token.claims)
    THEN [ status |-> 200,
           user |-> [ user_id |-> token.claims.sub.value,
                      role |-> extract_role_from_claims(token.claims) ] ]
    ELSE [status |-> 401, user |-> NoUser]

\* dependencies.py:51-59: role_checker of require_role(required_role)
role_checker(required_role, current) ==
    IF current.user.role # required_role THEN [status |-> 403, user |-> NoUser] ELSE current

RequireOperatorAdmitsAll(current) == current

\* dependencies.py:64-76
require_operator(current) ==
    IF current.user.role # "operator" THEN [status |-> 403, user |-> NoUser] ELSE current

\* dependencies.py:79-87
require_consumer(current) == current

\* The routes of consumer.py and operator.py, by their dependency.
ConsumerEndpoints == {"profile", "transactions", "insights", "recommendations"}

OperatorEndpoints == {"users", "dashboard"}

\* A request to an endpoint: FastAPI resolves get_current_user, then the
\* dependency of the route; the handler runs when access.status is 200
CallEndpoint(endpoint, token) ==
    /\ access = NoAccess
    /\ LET current == get_current_user(token)
           outcome == IF current.status # 200 THEN current
                      ELSE IF endpoint \in OperatorEndpoints THEN require_operator(current)
                      ELSE require_consumer(current)
       IN access' = [ endpoint |-> endpoint, required_role |-> NULL, token |-> token,
                      status |-> outcome.status, user |-> outcome.user ]
    /\ UNCHANGED <<store, accounts, session_factory, raced, pc, session, nq, filters, frame,
                   response, today, previous, tx_response, recommendations, persona_assignments,
                   rec_response>>

\* A request to a route that depends on require_role(required_role)
CallRoleChecker(required_role, token) ==
    /\ access = NoAccess
    /\ LET current == get_current_user(token)
           outcome == IF current.status # 200 THEN current
                      ELSE role_checker(required_role, current)
       IN access' = [ endpoint |-> "require_role", required_role |-> required_role, token |-> token,
                      status |-> outcome.status, user |-> outcome.user ]
    /\ UNCHANGED <<store, accounts, session_factory, raced, pc, session, nq, filters, frame,
                   response, today, previous, tx_response, recommendations, persona_assignments,
                   rec_response>>

\* The request is over.
Return ==
    /\ access # NoAccess
    /\ access' = NoAccess
    /\ UNCHANGED <<store, accounts, session_factory, raced, pc, session, nq, filters, frame,
                   response, today, previous, tx_response, recommendations, persona_assignments,
                   rec_response>>

\* ------------------------------------------------------------------------
\* Background jobs (lambdas) and their EventBridge rules
\* ------------------------------------------------------------------------

\* The user_id values of the explored events; "" is an empty string.
JobUserIds == {"u1", "u2", ""}

\* datetime.utcnow() and the time EventBridge stamps on an event: a logical
\* clock that advances with every recorded step.
Now == Len(history) + 1

\* One entry of the history.
Entry(kind, fn, user_id, event, outcome, statusCode) ==
    [ kind |-> kind, fn |-> fn, user_id |-> user_id, event |-> event, outcome |-> outcome,
      statusCode |-> statusCode ]

\* The triggers from outside the jobs recorded so far.
Triggers == Len(SelectSeq(history, LAMBDA h : h.kind \in {"signup", "scheduled"}))

EventRulesPersonaOnSignup ==
    { [detail_type |-> "User Signup", event_type |-> "user.signup", target |-> "compute_features"],
      [detail_type |-> "User Signup", event_type |-> "user.signup", target |-> "assign_persona"],
      [detail_type |-> "Persona Assigned", event_type |-> "persona.assigned",
       target |-> "generate_recommendations"] }

\* lambda_stack.py:363-476: the event-pattern rules (source spendsense)
EventRules ==
    { [detail_type |-> "User Signup", event_type |-> "user.signup", target |-> "compute_features"],
      [detail_type |-> "Features Computed", event_type |-> "features.computed",
       target |-> "assign_persona"],
      [detail_type |-> "Persona Assigned", event_type |-> "persona.assigned",
       target |-> "generate_recommendations"] }

\* The functions behind the rules, each with a scheduled rule of its own.
Functions == { r.target : r \in EventRules }

\* An event matches the pattern of a rule.
Matches(rule, e) ==
    /\ e.source = "spendsense"
    /\ e.detail_type = rule.detail_type
    /\ e.detail.event_type = rule.event_type

\* The input the rule's target receives (RuleTargetInput.from_object).
TargetInput(e) ==
    [event_type |-> e.detail.event_type, user_id |-> e.detail.user_id, timestamp |-> e.time]

\* The invocations EventBridge owes for the event e.
Deliveries(e) ==
    SetToBag({ [target |-> r.target, input |-> TargetInput(e)] : r \in { x \in EventRules : Matches(x, e) } })

\* A "User Signup" event is put on the bus by the sign-up flow.
PublishSignup(u) ==
    /\ LET e == [ source |-> "spendsense", detail_type |-> "User Signup",
                  detail |-> [event_type |-> "user.signup", timestamp |-> Now, user_id |-> u],
                  time |-> Now ]
       IN /\ bus' = bus (+) Deliveries(e)
          /\ history' = Append(history, Entry("signup", NULL, u, e, "ok", 0))
    /\ UNCHANGED job

\* The entry of handler(event, context).
Invoke(fn, input) ==
    [fn |-> fn, event |-> input, pc |-> "extract", user_id |-> NULL, statusCode |-> 0]

\* EventBridge invokes the target of a rule with the transformed event.
InvokeTarget(d) ==
    /\ job = NoJob
    /\ BagIn(d, bus)
    /\ bus' = bus (-) SetToBag({d})
    /\ job' = Invoke(d.target, d.input)
    /\ history' = Append(history, Entry("start", d.target, d.input.user_id, NoEvent,
                                         d.input.event_type, 0))

\* lambda_stack.py:346-445: a scheduled rule invokes its function for all
\* users (user_id None)
Scheduled(fn) ==
    /\ job = NoJob
    /\ job' = Invoke(fn, [event_type |-> "scheduled", user_id |-> NULL, timestamp |-> Now])
    /\ history' = Append(history, Entry("scheduled", fn, NULL, NoEvent, "scheduled", 0))
    /\ UNCHANGED bus

\* compute_features.py:85: event.get("user_id") or
\* event.get("detail", {}).get("user_id"); the input has no detail key
ExtractUserId ==
    /\ job.pc = "extract"
    /\ job' = [job EXCEPT !.pc = "secret",
                          !.user_id = IF Truthy(job.event.user_id) THEN job.event.user_id ELSE NULL]
    /\ UNCHANGED <<bus, history>>

\* compute_features.py:88-89: get_secret returns
GetSecret ==
    /\ job.pc = "secret"
    /\ job' = [job EXCEPT !.pc = "process"]
    /\ UNCHANGED <<bus, history>>

\* compute_features.py:17-25 and 112-119: get_secret raises and the handler
\* answers 500
GetSecretRaises ==
    /\ job.pc = "secret"
    /\ job' = [job EXCEPT !.pc = "return", !.statusCode = 500]
    /\ UNCHANGED <<bus, history>>

\* compute_features.py:91-97: the processing step (a placeholder that logs)
Process ==
    /\ job.pc = "process"
    /\ job' = [job EXCEPT !.pc = "emit"]
    /\ history' = Append(history, Entry("processed", job.fn, job.user_id, NoEvent, "ok", 0))
    /\ UNCHANGED bus

\* What the function passes to emit_event, NULL when it has no emit_event.
EmittedType(fn) ==
    CASE fn = "compute_features" -> [detail_type |-> "Features Computed", event_type |-> "features.computed"]
      [] fn = "assign_persona" -> [detail_type |-> "Persona Assigned", event_type |-> "persona.assigned"]
      [] OTHER -> [detail_type |-> NULL, event_type |-> NULL]

\* The outcomes of events_client.put_events: the entry is accepted, the entry
\* is reported failed (FailedEntryCount > 0), or the call raises.
PutOutcomes == {"ok", "failed_entry", "raises"}

EmitEventRaising(outcome) ==
    /\ job.pc = "emit"
    /\ Truthy(job.user_id)
    /\ EmittedType(job.fn).event_type # NULL
    /\ outcome \in PutOutcomes
    /\ LET e == [ source |-> "spendsense", detail_type |-> EmittedType(job.fn).detail_type,
                  detail |-> [ event_type |-> EmittedType(job.fn).event_type, timestamp |-> Now,
                               user_id |-> job.user_id ],
                  time |-> Now ]
       IN /\ bus' = IF outcome = "ok" THEN bus (+) Deliveries(e) ELSE bus
          /\ history' = Append(history, Entry("put_events", job.fn, job.user_id, e, outcome, 0))
    /\ job' = [job EXCEPT !.pc = "return", !.statusCode = IF outcome = "raises" THEN 500 ELSE 200]

\* compute_features.py:28-64 and 101-102: emit_event puts one entry on the
\* default bus; a failed entry or an exception is logged and the handler goes
\* on
EmitEvent(outcome) ==
    /\ job.pc = "emit"
    /\ Truthy(job.user_id)
    /\ EmittedType(job.fn).event_type # NULL
    /\ outcome \in PutOutcomes
    /\ LET e == [ source |-> "spendsense", detail_type |-> EmittedType(job.fn).detail_type,
                  detail |-> [ event_type |-> EmittedType(job.fn).event_type, timestamp |-> Now,
                               user_id |-> job.user_id ],
                  time |-> Now ]
       IN /\ bus' = IF outcome = "ok" THEN bus (+) Deliveries(e) ELSE bus
          /\ history' = Append(history, Entry("put_events", job.fn, job.user_id, e, outcome, 0))
    /\ job' = [job EXCEPT !.pc = "return", !.statusCode = 200]

\* compute_features.py:101 and generate_recommendations.py:57-59: nothing is
\* emitted without a user_id, nor by a function without emit_event
SkipEmit ==
    /\ job.pc = "emit"
    /\ ~Truthy(job.user_id) \/ EmittedType(job.fn).event_type = NULL
    /\ job' = [job EXCEPT !.pc = "return", !.statusCode = 200]
    /\ UNCHANGED <<bus, history>>

\* compute_features.py:104-119: the handler returns its result
ReturnResult ==
    /\ job.pc = "return"
    /\ history' = Append(history, Entry("return", job.fn, job.user_id, NoEvent, "ok", job.statusCode))
    /\ job' = NoJob
    /\ UNCHANGED bus

\* ------------------------------------------------------------------------
\* get_session (session.py), one use of the context manager step by step
\* ------------------------------------------------------------------------

\* What a body raises inside "with get_session()": the handlers raise
\* HTTPException and let the errors of their statements through, and the
\* seeding script expects to be interrupted from the keyboard.
BodyExceptions == {"HTTPException", "SQLAlchemyError", "KeyboardInterrupt"}

\* What session.commit() raises.
CommitExceptions == {"SQLAlchemyError", "KeyboardInterrupt"}

\* session.py:39: "except Exception" catches the exceptions of class Exception;
\* KeyboardInterrupt derives from BaseException only.
CatchesException(exc) == exc \in {"HTTPException", "SQLAlchemyError", "ValueError"}

\* One call on the session: who made it, which method, and how it ended.
Call(by, op, outcome) == [by |-> by, op |-> op, outcome |-> outcome]

\* The calls the body has made on its session.
BodyCalls == Len(SelectSeq(ctx.calls, LAMBDA c : c.by = "body"))

\* Where control goes when exc is raised inside the try block.
ClauseFor(exc) == IF CatchesException(exc) THEN "except" ELSE "finally"

\* session.py:34-36: the factory is there, a session is made and yielded
GetSession ==
    /\ ctx.pc \in {"idle", "exit"}
    /\ ctx' = [NoCtx EXCEPT !.pc = "body", !.obtained = TRUE]

\* session.py:34-35: the factory or the session cannot be made, before the
\* try block is entered
GetSessionRaises(exc) ==
    /\ ctx.pc \in {"idle", "exit"}
    /\ ctx' = [NoCtx EXCEPT !.pc = "exit", !.propagated = exc]

\* seed_demo_data.py:571: the body commits its session itself
BodyCommit ==
    /\ ctx.pc = "body"
    /\ BodyCalls < MaxBodyCalls
    /\ ctx' = [ctx EXCEPT !.calls = Append(@, Call("body", "commit", "ok"))]

\* seed_demo_data.py:565-568: the body rolls its session back itself
BodyRollback ==
    /\ ctx.pc = "body"
    /\ BodyCalls < MaxBodyCalls
    /\ ctx' = [ctx EXCEPT !.calls = Append(@, Call("body", "rollback", "ok"))]

\* session.py:37: the with block ends and the generator resumes after yield
BodyReturns ==
    /\ ctx.pc = "body"
    /\ ctx' = [ctx EXCEPT !.pc = "commit", !.body = "returns"]

\* session.py:37-39: the with block raises and the exception is thrown into
\* the generator at yield
BodyRaises(exc) ==
    /\ ctx.pc = "body"
    /\ ctx' = [ctx EXCEPT !.pc = ClauseFor(exc), !.body = exc, !.pending = exc]

\* session.py:38: session.commit() returns
SessionCommit ==
    /\ ctx.pc = "commit"
    /\ ctx' = [ctx EXCEPT !.pc = "finally", !.commit = "ok",
                          !.calls = Append(@, Call("get_session", "commit", "ok"))]

\* session.commit() raising as if it stood outside the try block's except
\* clause: straight to the finally clause.
SessionCommitRaisesUncaught(exc) ==
    /\ ctx.pc = "commit"
    /\ ctx' = [ctx EXCEPT !.pc = "finally", !.commit = exc, !.pending = exc,
                          !.calls = Append(@, Call("get_session", "commit", exc))]

\* session.py:38-39: session.commit() raises
SessionCommitRaises(exc) ==
    /\ ctx.pc = "commit"
    /\ ctx' = [ctx EXCEPT !.pc = ClauseFor(exc), !.commit = exc, !.pending = exc,
                          !.calls = Append(@, Call("get_session", "commit", exc))]

\* session.py:39-41: the except clause rolls back and re-raises
SessionRollback ==
    /\ ctx.pc = "except"
    /\ ctx' = [ctx EXCEPT !.pc = "finally",
                          !.calls = Append(@, Call("get_session", "rollback", "ok"))]

\* session.py:42-43: the finally clause closes the session, and what is
\* pending reaches the caller
SessionClose ==
    /\ ctx.pc = "finally"
    /\ ctx' = [ctx EXCEPT !.pc = "exit", !.propagated = ctx.pending,
                          !.calls = Append(@, Call("get_session", "close", "ok"))]

\* ------------------------------------------------------------------------
\* Specification
\* ------------------------------------------------------------------------

\* The commits of the other sessions.
Write ==
    \/ \E row \in TxUniverse : Ingest(row)
    \/ \E a \in AccountUniverse : AddAccount(a)
    \/ \E u \in Users : SeedTransactions(u)

\* The steps of a get_insights request.
Handler ==
    \/ \E p \in Periods : RejectPeriod(p)
    \/ \E p \in Periods : OpenSession(p)
    \/ \E p \in Periods, exc \in FactoryExceptions : SessionFactoryRaises(p, exc)
    \/ QueryTotalSpending
    \/ QueryTopCategory
    \/ QueryCategorySpending
    \/ QueryCreditAccounts
    \/ QuerySubscriptionMerchants
    \/ QueryMerchantTransactions
    \/ Respond
    \/ \E exc \in QueryExceptions : QueryRaises(exc)
    \/ \E exc \in QueryExceptions : CommitRaises(exc)
    \/ Deliver

\* Requests over a store that changes only between requests.
Next ==
    \/ Idle /\ Write /\ UNCHANGED <<previous, apiVars, otherVars>>
    \/ Handler /\ UNCHANGED <<previous, apiVars, otherVars>>

Spec == Init /\ [][Next]_vars

\* Requests interleaved with the commits of other sessions.
NextConcurrent ==
    \/ Write /\ UNCHANGED <<previous, apiVars, otherVars>>
    \/ Handler /\ UNCHANGED <<previous, apiVars, otherVars>>

SpecConcurrent == Init /\ [][NextConcurrent]_vars

\* The recommendations endpoint and the writers of its tables.
NextRecommendations ==
    \/ UNCHANGED otherVars /\ \E r \in RecUniverse : AddRecommendation(r)
    \/ UNCHANGED otherVars /\ \E a \in PersonaUniverse : AssignPersona(a)
    \/ UNCHANGED otherVars /\ GetRecommendations
    \/ UNCHANGED otherVars /\ \E exc \in FactoryExceptions : RecommendationsRaises(exc)
    \/ UNCHANGED otherVars /\ DeliverRecommendations

SpecRecommendations == Init /\ [][NextRecommendations]_vars

\* The rows written while all consumer endpoints are explored together.
ConsumerTxUniverse ==
    { r \in TxUniverse : r.date = 90 }

ConsumerAccountUniverse ==
    { a \in AccountUniverse : a.id \in {"a1", "a4", "a6"} }

ConsumerRecUniverse ==
    { r \in RecUniverse : r.id \in {"e1", "o1", "x1"} }

ConsumerPersonaUniverse ==
    { a \in PersonaUniverse : a.assigned_at >= 95 /\ a.time_window = "30d" }

\* The parameters of the explored calls of get_transactions.
ConsumerQueries ==
    { Query(NoneNum, NoneNum, NULL, <<>>, 1, 2),
      Query(Some(90), NoneNum, "Health", <<"g", "Y">>, 1, 1) }

\* The rows of the four tables after the step.
RowsAfter ==
    BagCardinality(store') + Cardinality(accounts') + Cardinality(recommendations')
        + Cardinality(persona_assignments')

\* One client calling the three consumer endpoints, one call at a time, over
\* tables that change only between calls.
NextConsumer ==
    \/ /\ Idle
       /\ \/ \E row \in ConsumerTxUniverse : Ingest(row)
          \/ \E a \in ConsumerAccountUniverse : AddAccount(a)
       /\ UNCHANGED <<previous, apiVars, otherVars>>
       /\ RowsAfter <= MaxConsumerRows
    \/ /\ \/ \E r \in ConsumerRecUniverse : AddRecommendation(r)
          \/ \E a \in ConsumerPersonaUniverse : AssignPersona(a)
       /\ UNCHANGED otherVars
       /\ RowsAfter <= MaxConsumerRows
    \/ Handler /\ UNCHANGED <<previous, apiVars, otherVars>>
    \/ UNCHANGED otherVars /\ \E q \in ConsumerQueries : GetTransactions(q)
    \/ UNCHANGED otherVars /\ \E q \in ConsumerQueries, exc \in FactoryExceptions : TransactionsRaises(q, exc)
    \/ UNCHANGED otherVars /\ DeliverTransactions
    \/ UNCHANGED otherVars /\ GetRecommendations
    \/ UNCHANGED otherVars /\ \E exc \in FactoryExceptions : RecommendationsRaises(exc)
    \/ UNCHANGED otherVars /\ DeliverRecommendations

SpecConsumer == Init /\ [][NextConsumer]_vars

\* Requests with any token to any endpoint.
NextAccess ==
    \/ /\ access = NoAccess
       /\ UNCHANGED otherVars
       /\ \E e \in ConsumerEndpoints \cup OperatorEndpoints, t \in Tokens : CallEndpoint(e, t)
    \/ /\ access = NoAccess
       /\ UNCHANGED otherVars
       /\ \E r \in {"consumer", "operator"}, t \in Tokens : CallRoleChecker(r, t)
    \/ UNCHANGED otherVars /\ Return

SpecAccess == Init /\ [][NextAccess]_vars

\* What a client keeps of the answer it is about to receive, to compare the
\* next answer with: the period and the data section of a 200 response.
Remembered ==
    IF pc = "done" /\ response.status = 200
    THEN [period |-> response.meta.period, data |-> response.data]
    ELSE previous

\* Repeated requests of one client over a store that changes only between
\* requests; a commit of another session makes the client forget the answer
\* it kept.
NextRepeat ==
    \/ Idle /\ Write /\ previous' = NoPrevious /\ UNCHANGED <<apiVars, otherVars>>
    \/ Handler /\ previous' = Remembered /\ UNCHANGED <<apiVars, otherVars>>

SpecRepeat == Init /\ [][NextRepeat]_vars

\* The rows written while the transactions endpoint is explored.
PagingTxUniverse ==
    { r \in TxUniverse : r.date \in {70, 90} }

\* The filters of the explored paging sessions (page is set by the client).
PagingFilters ==
    { Query(NoneNum, NoneNum, NULL, <<>>, 1, 1),
      Query(Some(80), Some(95), "", <<"g", "Y">>, 1, 1),
      Query(NoneNum, Some(90), "Health", <<>>, 1, 1) }

\* The first request of a paging session: page 1 with some filters and limit.
FirstQueries ==
    { [q EXCEPT !.limit = l] : q \in PagingFilters, l \in 1..MaxLimit }

\* The client asks for the page after the ones it holds, up to one page past
\* the last.
NextQueries ==
    IF collected.pages # <<>> /\ Len(collected.pages) <= collected.total_pages
    THEN { [collected.q EXCEPT !.page = Len(collected.pages) + 1] }
    ELSE {}

\* What the client holds once the pending response has arrived.
Gathered ==
    IF tx_response.status = 200
    THEN [ q |-> [tx_response.params EXCEPT !.page = 1],
           pages |-> Append(collected.pages, tx_response.data.transactions),
           total_pages |-> tx_response.data.pagination.total_pages ]
    ELSE NoCollected

\* One client paging through the transactions endpoint, one call at a time,
\* over a table that changes only between paging sessions.
NextTransactions ==
    \/ /\ Idle
       /\ BagCardinality(store) < MaxPagingRows
       /\ \E row \in PagingTxUniverse : Ingest(row)
       /\ collected' = NoCollected
       /\ UNCHANGED <<previous, apiVars, scriptVars>>
    \/ /\ collected = NoCollected \/ Len(collected.pages) > collected.total_pages
       /\ \E q \in FirstQueries : GetTransactions(q)
       /\ collected' = NoCollected
       /\ UNCHANGED scriptVars
    \/ /\ \E q \in NextQueries : GetTransactions(q)
       /\ UNCHANGED <<collected, scriptVars>>
    \/ /\ \E q \in (IF NextQueries = {} THEN FirstQueries ELSE NextQueries),
             exc \in FactoryExceptions : TransactionsRaises(q, exc)
       /\ UNCHANGED <<collected, scriptVars>>
    \/ /\ DeliverTransactions
       /\ collected' = Gathered
       /\ UNCHANGED scriptVars

\* get_transactions does not read the calendar date.
InitTransactions == Init /\ today = 100

SpecTransactions == InitTransactions /\ [][NextTransactions]_vars

\* The steps of EventBridge and of the handlers.
JobStep ==
    \/ \E d \in BagToSet(bus) : InvokeTarget(d)
    \/ ExtractUserId
    \/ GetSecret
    \/ GetSecretRaises
    \/ Process
    \/ \E outcome \in PutOutcomes : EmitEvent(outcome)
    \/ SkipEmit
    \/ ReturnResult

jobVars == <<bus, job, history>>

apiState == <<store, accounts, session_factory, raced, pc, session, nq, filters, frame, response,
              today, previous, apiVars, collected, seed_run, ctx>>

\* The background jobs, triggered a bounded number of times.
NextJobs ==
    \/ /\ Triggers < MaxTriggers
       /\ \E u \in JobUserIds : PublishSignup(u)
       /\ UNCHANGED <<apiState, loop>>
    \/ /\ Triggers < MaxTriggers
       /\ \E fn \in Functions : Scheduled(fn)
       /\ UNCHANGED <<apiState, loop>>
    \/ UNCHANGED <<apiState, loop>> /\ \E d \in BagToSet(bus) : InvokeTarget(d)
    \/ UNCHANGED <<apiState, loop>> /\ ExtractUserId
    \/ UNCHANGED <<apiState, loop>> /\ GetSecret
    \/ UNCHANGED <<apiState, loop>> /\ GetSecretRaises
    \/ UNCHANGED <<apiState, loop>> /\ Process
    \/ UNCHANGED <<apiState, loop>> /\ \E outcome \in PutOutcomes : EmitEvent(outcome)
    \/ UNCHANGED <<apiState, loop>> /\ SkipEmit
    \/ UNCHANGED <<apiState, loop>> /\ ReturnResult

\* The jobs do not read the calendar date of the API.
InitJobs == Init /\ today = 100

SpecJobs == InitJobs /\ [][NextJobs]_vars

\* EventBridge delivers what it accepted and a started handler runs to its
\* return.
SpecJobsFair == SpecJobs /\ WF_jobVars(JobStep)

\* The seeding script run any number of times over a table that ingestion
\* also writes.
NextSeed ==
    \/ /\ Idle
       /\ \E row \in TxUniverse : Ingest(row)
       /\ seed_run' = NoSeedRun
       /\ UNCHANGED <<previous, apiVars, collected, bus, job, history, loop, ctx>>
    \/ /\ \E u \in Users : RunSeed(u)
       /\ UNCHANGED <<previous, apiVars, collected, bus, job, history, loop, ctx>>

SpecSeed == Init /\ [][NextSeed]_vars

\* The steps of the week-bucket loop once entered.
LoopStep == LoopBody \/ LoopExit

\* The week-bucket loop on any window that starts no later than it ends.
NextBuckets ==
    \/ /\ \E start_date \in 0..MaxDay, end_date \in 0..MaxDay : EnterLoop(start_date, end_date)
       /\ UNCHANGED <<apiState, jobVars>>
    \/ LoopBody /\ UNCHANGED <<apiState, jobVars>>
    \/ LoopExit /\ UNCHANGED <<apiState, jobVars>>
    \/ LeaveLoop /\ UNCHANGED <<apiState, jobVars>>

\* The loop does not read the calendar date.
InitBuckets == Init /\ today = 100

SpecBuckets == InitBuckets /\ [][NextBuckets]_vars

\* An entered loop keeps running.
SpecBucketsFair == SpecBuckets /\ WF_loop(LoopStep)

\* Everything but the context manager.
outsideSession == <<store, accounts, session_factory, raced, pc, session, nq, filters, frame,
                    response, today, previous, apiVars, collected, jobVars, seed_run, loop>>

\* get_session used again and again, by bodies that return, raise, commit and
\* roll back.
NextSession ==
    \/ GetSession /\ UNCHANGED outsideSession
    \/ UNCHANGED outsideSession /\ \E exc \in FactoryExceptions : GetSessionRaises(exc)
    \/ BodyCommit /\ UNCHANGED outsideSession
    \/ BodyRollback /\ UNCHANGED outsideSession
    \/ BodyReturns /\ UNCHANGED outsideSession
    \/ UNCHANGED outsideSession /\ \E exc \in BodyExceptions : BodyRaises(exc)
    \/ SessionCommit /\ UNCHANGED outsideSession
    \/ UNCHANGED outsideSession /\ \E exc \in CommitExceptions : SessionCommitRaises(exc)
    \/ SessionRollback /\ UNCHANGED outsideSession
    \/ SessionClose /\ UNCHANGED outsideSession

\* The context manager does not read the calendar date.
InitSession == Init /\ today = 100

SpecSession == InitSession /\ [][NextSession]_vars

\* ------------------------------------------------------------------------
\* Properties
\* ------------------------------------------------------------------------

\* The handler returned a 200 response that is still under observation.
Answered == pc = "done" /\ response.status = 200

\* No other session committed while the request was in flight.
FixedStore == ~raced

RECURSIVE SumAmounts(_)
\* Sum of the amount fields of a sequence of records.
SumAmounts(seq) == IF seq = <<>> THEN 0 ELSE Head(seq).amount + SumAmounts(Tail(seq))

\* Sum of the magnitudes of the rows of S, a set of rows of the table.
Magnitude(S) == SumSet(S, [r \in S |-> store[r] * Abs(r.amount)])

\* The caller's debits dated within the window the response reports.
ReportedDebits ==
    { r \in BagToSet(store) :
        /\ r.user_id = Caller
        /\ r.amount < 0
        /\ response.meta.start_date <= r.date
        /\ r.date <= response.meta.end_date }

\* C1: for every request date D, period 30d uses end_date = D and start_date
\* = D - 30 and period 90d start_date = D - 90; these dates are reported in
\* meta and are the inclusive bounds of every transaction filter of the
\* request (a debit dated exactly start_date or end_date is counted).
C1_WindowCorrect ==
    /\ (pc # "idle" /\ frame.period \in {"30d", "90d"}) =>
          /\ frame.end_date = today
          /\ frame.end_date - frame.start_date = (IF frame.period = "30d" THEN 30 ELSE 90)
          /\ \A f \in filters : f = <<frame.start_date, frame.end_date>>
    /\ Answered =>
          /\ response.meta.end_date = today
          /\ response.meta.start_date = today - (IF response.meta.period = "30d" THEN 30 ELSE 90)
          /\ filters = {<<response.meta.start_date, response.meta.end_date>>}
          /\ FixedStore =>
                response.data.total_spending >=
                    Magnitude({ r \in ReportedDebits :
                                  r.date \in {response.meta.start_date, response.meta.end_date} })

\* C1 witness: a 30d request answered on day 100 counted the debit dated
\* exactly start_date = 70.
C1_Witness ==
    /\ Answered
    /\ FixedStore
    /\ response.meta = [period |-> "30d", start_date |-> 70, end_date |-> 100]
    /\ Tx("u1", 70, "Netflix", -1599, "Subscriptions") \in BagToSet(store)
    /\ response.data.total_spending >= 1599

\* C2: every period outside {30d, 90d} is rejected with 400 and the period
\* message before any data fetch: no session is opened, no query is issued,
\* and the handler is finished.
C2_InvalidPeriodRejected ==
    (pc # "idle" /\ frame.period \notin {"30d", "90d"}) =>
        /\ pc = "done"
        /\ response.status = 400
        /\ response.detail = "Period must be '30d' or '90d'"
        /\ session = "none"
        /\ nq = 0
        /\ filters = {}

\* C2 witness: a request with period 60d has been rejected.
C2_Witness ==
    /\ pc = "done"
    /\ frame.period = "60d"
    /\ response.status = 400
    /\ BagToSet(store) # {}

\* C3: total_spending is >= 0 and is the sum of the magnitudes of the
\* caller's debits dated within the window: credits and transactions outside
\* the window contribute nothing.
C3_TotalSpendingDebitsOnly ==
    (Answered /\ FixedStore) =>
        /\ response.data.total_spending >= 0
        /\ response.data.total_spending = Magnitude(ReportedDebits)

\* C3 witness: a response over a store holding a debit in the window, a
\* credit in the window and a debit outside the window.
C3_Witness ==
    /\ Answered
    /\ FixedStore
    /\ response.data.total_spending > 0
    /\ \E r \in BagToSet(store) :
          r.user_id = Caller /\ r.amount > 0
          /\ response.meta.start_date <= r.date /\ r.date <= response.meta.end_date
    /\ \E r \in BagToSet(store) :
          r.user_id = Caller /\ r.amount < 0 /\ r.date > response.meta.end_date

CategorySum == SumAmounts(response.data.spending_by_category)

\* C4 as stated: the category amounts sum to at most total_spending, with
\* equality if and only if no transaction of the caller has category None.
C4_EqualityIffNoNullTransaction ==
    (Answered /\ FixedStore) =>
        /\ CategorySum <= response.data.total_spending
        /\ (CategorySum = response.data.total_spending) <=>
              ~(\E r \in BagToSet(store) : r.user_id = Caller /\ r.category = NULL)

\* C4 amended: the category amounts sum to at most total_spending, with
\* equality if and only if no debit of the caller dated within the window
\* has category None.
C4_EqualityIffNoNullDebit ==
    (Answered /\ FixedStore) =>
        /\ CategorySum <= response.data.total_spending
        /\ (CategorySum = response.data.total_spending) <=>
              ~(\E r \in ReportedDebits : r.category = NULL)

\* C4 witness: the sums are equal and positive although the caller has an
\* uncategorized credit in the window.
C4_Witness ==
    /\ Answered
    /\ FixedStore
    /\ response.data.total_spending > 0
    /\ CategorySum = response.data.total_spending
    /\ \E r \in BagToSet(store) :
          r.user_id = Caller /\ r.category = NULL /\ r.amount > 0
          /\ response.meta.start_date <= r.date /\ r.date <= response.meta.end_date

\* The caller's reported debits with the merchant m, their number and the
\* sum of their magnitudes.
MerchantDebits(m) == { r \in ReportedDebits : r.merchant = m }

MerchantCount(m) == SumSet(MerchantDebits(m), [r \in MerchantDebits(m) |-> store[r]])

MerchantSum(m) == Magnitude(MerchantDebits(m))

Listed(m) ==
    \E i \in 1..Len(response.data.subscriptions) : response.data.subscriptions[i].merchant = m

\* Every magnitude of the merchant is within 10% of the mean, exactly.
WithinTenPercent(m) ==
    /\ MerchantSum(m) > 0
    /\ \A r \in MerchantDebits(m) :
          Abs(Abs(r.amount) * MerchantCount(m) - MerchantSum(m)) * 10 <= MerchantSum(m)

\* C5: a merchant is listed as a subscription if and only if the caller has
\* at least 3 debits with that merchant in the window and each magnitude m
\* satisfies |m - avg| / avg <= 0.10.
C5_ListedIffConsistent ==
    (Answered /\ FixedStore) =>
        \A m \in { r.merchant : r \in TxUniverse } :
            Listed(m) <=> (MerchantCount(m) >= 3 /\ WithinTenPercent(m))

RECURSIVE MeanSum(_)
\* The sum of the unrounded means of the merchants of the sequence, as a
\* fraction <<numerator, denominator>>.
MeanSum(subs) ==
    IF subs = <<>> THEN <<0, 1>>
    ELSE LET t == MeanSum(Tail(subs))
             m == Head(subs).merchant
         IN <<MerchantSum(m) * t[2] + t[1] * MerchantCount(m), MerchantCount(m) * t[2]>>

\* q is a nearest integer to num / den.
Nearest(q, num, den) == Abs(q * den - num) * 2 <= den

PointAccounts == SelectSeq(frame.credit_accounts, HasLimit)

\* C7: every credit_utilization point carries round(|balance| / limit * 100,
\* 1) of its account's current balance and limit, so all points of one
\* account agree in utilization, balance and limit; balance -3400.00 with
\* limit 5000.00 gives 68.0 in every bucket.
C7_StaticUtilization ==
    Answered =>
        LET pts == response.data.credit_utilization
            k == Len(PointAccounts)
        IN /\ k = 0 => pts = <<>>
           /\ \A i \in 1..Len(pts) :
                 LET a == PointAccounts[((i - 1) % k) + 1]
                 IN /\ a \in accounts
                    /\ pts[i].limit = a.limit[1]
                    /\ pts[i].balance = Abs(a.balance[1])
                    /\ Nearest(pts[i].utilization, Abs(a.balance[1]) * 1000, a.limit[1])
                    /\ a.id = "a1" => pts[i].utilization = 680
           /\ \A i, j \in 1..Len(pts) :
                 (i - 1) % k = (j - 1) % k =>
                    /\ pts[i].utilization = pts[j].utilization
                    /\ pts[i].balance = pts[j].balance
                    /\ pts[i].limit = pts[j].limit

\* C7 witness: a response whose points all belong to the account with
\* balance -3400.00 and limit 5000.00.
C7_Witness ==
    /\ Answered
    /\ Len(PointAccounts) = 1
    /\ PointAccounts[1].id = "a1"
    /\ Len(response.data.credit_utilization) >= 5
    /\ \A i \in 1..Len(response.data.credit_utilization) :
          response.data.credit_utilization[i].utilization = 680

\* The caller's credit_card accounts with a positive limit.
LimitedCards ==
    { a \in accounts : a.user_id = Caller /\ a.account_type = "credit_card" /\ HasLimit(a) }

\* C8: period 30d gives 5 weekly buckets and 90d gives 13; with k credit_card
\* accounts with limit > 0 the response has (number of buckets) * k points;
\* balance -400 with limit 3000 gives 13.3 in each point.
C8_PointCount ==
    (Answered /\ FixedStore) =>
        LET pts == response.data.credit_utilization
            nb == IF response.meta.period = "30d" THEN 5 ELSE 13
        IN /\ Len(pts) = nb * Cardinality(LimitedCards)
           /\ (LimitedCards = {Acct("a2", "u1", "credit_card", Some(-40000), Some(300000))})
                 => \A i \in 1..Len(pts) : pts[i].utilization = 133

\* C8 witness: a 30d response with the one account of balance -400 and
\* limit 3000 has 5 points of 13.3.
C8_Witness ==
    /\ Answered
    /\ FixedStore
    /\ response.meta.period = "30d"
    /\ LimitedCards = {Acct("a2", "u1", "credit_card", Some(-40000), Some(300000))}
    /\ Len(response.data.credit_utilization) = 5
    /\ \A i \in 1..5 : response.data.credit_utilization[i].utilization = 133

\* C9: with a valid period, every failure of the data-fetch step (creating
\* the session or a query raising) is answered 500, never 400 or 200, and no
\* query follows the failure.
C9_FetchFailureIs500 ==
    (pc = "done" /\ frame.period \in {"30d", "90d"} /\ session # "committed") =>
        response.status = 500

\* C10: for every interleaving with concurrent writes, the response is
\* computed from one store state, so the category amounts sum to at most
\* total_spending.
C10_SnapshotConsistent ==
    Answered => CategorySum <= response.data.total_spending

\* C11: two requests of the caller with the same period, made on the same
\* date over an unchanged store, return identical data sections, the order
\* of the elements of spending_by_category, credit_utilization and
\* subscriptions included.
C11_RepeatedRequestIdentical ==
    (Answered /\ previous.period = response.meta.period) =>
        response.data = previous.data

\* The caller has no transaction and no credit_card account.
NothingStored ==
    /\ ~(\E r \in BagToSet(store) : r.user_id = Caller)
    /\ ~(\E a \in accounts : a.user_id = Caller /\ a.account_type = "credit_card")

\* C12: when the caller has no transactions and no credit_card account, a
\* request with a valid period is answered 200 with total_spending 0,
\* average_daily_spend 0, top_category null, savings_rate null, empty
\* spending_by_category and credit_utilization, and subscriptions with
\* total_monthly 0 and an empty list.
C12_EmptyAnswer ==
    /\ (pc = "done" /\ session = "committed") => response.status = 200
    /\ (Answered /\ FixedStore /\ NothingStored) =>
          response.data = [ total_spending |-> 0,
                            average_daily_spend |-> 0,
                            top_category |-> NULL,
                            savings_rate |-> NULL,
                            spending_by_category |-> <<>>,
                            credit_utilization |-> <<>>,
                            subscriptions |-> <<>>,
                            total_monthly |-> 0 ]

\* C12 witness: an answer to the caller, who has nothing but a checking
\* account, while another user has a transaction and a credit card.
C12_Witness ==
    /\ Answered
    /\ FixedStore
    /\ NothingStored
    /\ \E r \in BagToSet(store) : r.user_id # Caller
    /\ \E a \in accounts : a.user_id = Caller /\ a.account_type = "checking"
    /\ \E a \in accounts : a.user_id # Caller
    /\ response.data.total_spending = 0
    /\ response.data.credit_utilization = <<>>

\* The non-null categories of the caller's reported debits and the summed
\* magnitude of one of them.
ReportedCategories == { r.category : r \in ReportedDebits } \ {NULL}

CategoryTotal(c) == Magnitude({ r \in ReportedDebits : r.category = c })

\* C13: top_category is a non-null category of the caller whose summed debit
\* magnitude over the window is maximal (no category has a strictly larger
\* sum), and it is null exactly when the caller has no debit with a non-null
\* category in the window.
C13_TopCategoryMaximal ==
    (Answered /\ FixedStore) =>
        LET top == response.data.top_category
        IN /\ (top = NULL) <=> (ReportedCategories = {})
           /\ top # NULL =>
                 /\ top \in ReportedCategories
                 /\ \A c \in ReportedCategories : CategoryTotal(c) <= CategoryTotal(top)

\* C13 witness: the reported top category has a strictly larger sum than
\* another category, and uncategorized debits are present.
C13_Witness ==
    /\ Answered
    /\ FixedStore
    /\ response.data.top_category # NULL
    /\ \E c \in ReportedCategories : CategoryTotal(c) < CategoryTotal(response.data.top_category)
    /\ \E r \in ReportedDebits : r.category = NULL

\* C14: spending_by_category has exactly one entry per distinct non-null
\* category with a debit in the window, its amount is the sum of the
\* magnitudes of those debits, the entries are in non-increasing order of
\* amount, and debits with category None are in no entry although
\* total_spending includes them.
C14_CategoryEntries ==
    (Answered /\ FixedStore) =>
        LET sbc == response.data.spending_by_category
        IN /\ Len(sbc) = Cardinality(ReportedCategories)
           /\ { sbc[i].category : i \in 1..Len(sbc) } = ReportedCategories
           /\ \A i \in 1..Len(sbc) : sbc[i].amount = CategoryTotal(sbc[i].category)
           /\ \A i \in 1..(Len(sbc) - 1) : sbc[i].amount >= sbc[i + 1].amount
           /\ response.data.total_spending =
                 CategorySum + Magnitude({ r \in ReportedDebits : r.category = NULL })

\* C14 witness: two entries of different amounts, and an uncategorized debit
\* that only total_spending counts.
C14_Witness ==
    /\ Answered
    /\ FixedStore
    /\ Len(response.data.spending_by_category) = 2
    /\ response.data.spending_by_category[1].amount > response.data.spending_by_category[2].amount
    /\ \E r \in ReportedDebits : r.category = NULL
    /\ response.data.total_spending > CategorySum

\* C15: every credit_utilization point belongs to a credit_card account of
\* the caller whose limit is present and > 0 (the point carries that
\* account's balance and limit); accounts of another type, of another user
\* or without a positive limit produce no point, and a caller without such
\* an account gets an empty list.
C15_PointsOnlyForLimitedCards ==
    (Answered /\ FixedStore) =>
        LET pts == response.data.credit_utilization
        IN /\ \A i \in 1..Len(pts) :
                 \E a \in LimitedCards :
                    pts[i].limit = a.limit[1] /\ pts[i].balance = Balance(a)
           /\ LimitedCards = {} => pts = <<>>
           /\ (\A a \in accounts : a.user_id = Caller => a.account_type # "credit_card")
                 => pts = <<>>

\* C15 witness: points were produced although the caller also has a checking
\* account with a limit and a credit card without a positive limit, and
\* another user has a credit card.
C15_Witness ==
    /\ Answered
    /\ FixedStore
    /\ Len(response.data.credit_utilization) > 0
    /\ \E a \in accounts : a.user_id = Caller /\ a.account_type = "checking" /\ HasLimit(a)
    /\ \E a \in accounts : a.user_id = Caller /\ a.account_type = "credit_card" /\ ~HasLimit(a)
    /\ \E a \in accounts : a.user_id # Caller /\ a.account_type = "credit_card" /\ HasLimit(a)

\* get_recommendations returned a 200 response that is still under observation.
RecAnswered == pc = "rec_done" /\ rec_response.status = 200

\* The caller's stored recommendations of type t.
OwnRecs(t) == { r \in recommendations : r.user_id = Caller /\ r.type = t }

\* The items of the list are distinct rows of the set S, newest first, and
\* no row of S left out is newer than a row of the list.
NewestOf(list, S, n) ==
    /\ Len(list) = Min(n, Cardinality(S))
    /\ \A i \in 1..Len(list) : \E r \in S : r.id = list[i].id
    /\ \A i, j \in 1..Len(list) : i # j => list[i].id # list[j].id
    /\ \A i, j \in 1..Len(list) :
          i < j => \A r, o \in S :
                      (r.id = list[i].id /\ o.id = list[j].id) => TsLeq(o.created_at, r.created_at)
    /\ \A o \in S :
          (\A i \in 1..Len(list) : list[i].id # o.id) =>
              \A r \in S : (\E i \in 1..Len(list) : list[i].id = r.id) => TsLeq(o.created_at, r.created_at)

\* C20: get_recommendations returns at most 5 education items and at most 3
\* offers; the education items are the min(5, n) most recently created
\* education recommendations of the caller and the offers the min(3, m) most
\* recently created offers, each list newest first, and both lists are
\* empty when the caller has no recommendations.
C20_NewestWithinLimits ==
    RecAnswered =>
        /\ Len(rec_response.data.education) <= 5
        /\ Len(rec_response.data.offers) <= 3
        /\ NewestOf(rec_response.data.education, OwnRecs("education"), 5)
        /\ NewestOf(rec_response.data.offers, OwnRecs("offer"), 3)
        /\ (\A r \in recommendations : r.user_id # Caller) =>
              rec_response.data.education = <<>> /\ rec_response.data.offers = <<>>

\* C20 witness: the caller has 6 education recommendations and 4 offers, and
\* the answer has 5 and 3 of them.
C20_Witness ==
    /\ RecAnswered
    /\ Cardinality(OwnRecs("education")) = 6
    /\ Cardinality(OwnRecs("offer")) = 4
    /\ Len(rec_response.data.education) = 5
    /\ Len(rec_response.data.offers) = 3
    /\ rec_response.data.education[1].id = "e6"
    /\ rec_response.data.offers[1].id = "o4"

\* C16: get_insights performs no writes: every step of a request, up to its
\* successful or failed end (the session's commit or rollback included),
\* leaves the stored transactions and accounts of every user as they were.
C16_NoWrites ==
    [][(pc # "idle" \/ pc' # "idle") => (store' = store /\ accounts' = accounts)]_vars

\* C16 witness: a request over a database with transactions and accounts has
\* failed after some queries and its session was rolled back.
C16_Witness ==
    /\ pc = "done"
    /\ session = "rolledback"
    /\ nq > 1
    /\ BagToSet(store) # {}
    /\ accounts # {}

\* The caller's rows of the four tables.
OwnStore == Restrict(store, { r \in BagToSet(store) : r.user_id = Caller })

OwnAccounts == { a \in accounts : a.user_id = Caller }

OwnRecommendations == { r \in recommendations : r.user_id = Caller }

OwnPersonas == { a \in persona_assignments : a.user_id = Caller }

\* get_transactions returned a 200 response that is still under observation.
TxAnswered == pc = "tx_done" /\ tx_response.status = 200

\* The answer of get_transactions is an answer over the tables st.
TransactionsAnswerOver(st) ==
    \E res \in get_user_transactions(st, Caller, tx_response.params) :
        /\ tx_response.data.transactions = res.transactions
        /\ tx_response.data.pagination.total = res.total
        /\ tx_response.data.pagination.total_pages = TotalPages(res.total, tx_response.params.limit)

\* The answer of get_recommendations is an answer over the tables recs, pas.
RecommendationsAnswerOver(recs, pas) ==
    /\ rec_response.meta.persona \in PersonaQuery(pas, Caller, today)
    /\ \E all_recommendations \in AllRecommendationsQuery(recs, Caller) :
          /\ rec_response.data.education =
                Formatted(SelectSeq(all_recommendations, IsEducation), EducationLimit)
          /\ rec_response.data.offers =
                Formatted(SelectSeq(all_recommendations, IsOffer), OfferLimit)

\* The answer of get_insights is an answer over the tables st, acc.
InsightsAnswerOver(st, acc) ==
    LET lo == response.meta.start_date
        hi == response.meta.end_date
        d == response.data
        total == TotalSpendingQuery(st, Caller, lo, hi)
    IN /\ d.total_spending = (IF total = NoneNum THEN 0 ELSE total[1])
       /\ d.top_category \in TopCategoryQuery(st, Caller, lo, hi)
       /\ d.spending_by_category \in CategorySpendingQuery(st, Caller, lo, hi)
       /\ \E credit_accounts \in CreditAccountsQuery(acc, Caller) :
            \E util \in UtilizationVectors(SelectSeq(credit_accounts, HasLimit)) :
               d.credit_utilization = UtilizationPoints(WeekBuckets(lo, hi), credit_accounts, util)
       /\ \A i \in 1..Len(d.subscriptions) :
             LET amounts == MerchantTransactionsQuery(st, Caller, lo, hi, d.subscriptions[i].merchant)
             IN /\ Count(amounts) >= 3
                /\ TRUE \in IsConsistentChoices(amounts)
                /\ d.subscriptions[i].amount \in Round(SumAbs(amounts), Count(amounts))
       /\ \A m \in { r.merchant : r \in BagToSet(st) } :
             LET amounts == MerchantTransactionsQuery(st, Caller, lo, hi, m)
             IN (Count(amounts) >= 3 /\ IsConsistentChoices(amounts) = {TRUE}) =>
                    \E i \in 1..Len(d.subscriptions) : d.subscriptions[i].merchant = m

\* C17: the consumer endpoints (transactions, insights, recommendations)
\* return only the caller's own data: every answer is an answer over the
\* tables reduced to the caller's rows, whatever the transactions,
\* accounts, recommendations and persona assignments of the other users.
C17_OwnDataOnly ==
    /\ TxAnswered => TransactionsAnswerOver(OwnStore)
    /\ RecAnswered => RecommendationsAnswerOver(OwnRecommendations, OwnPersonas)
    /\ Answered => InsightsAnswerOver(OwnStore, OwnAccounts)

\* C17 witness: recommendations were returned to the caller while another
\* user has a newer recommendation and a persona.
C17_Witness ==
    /\ RecAnswered
    /\ \E r \in recommendations : r.user_id # Caller
    /\ \E a \in persona_assignments : a.user_id # Caller
    /\ Len(rec_response.data.education) = 1
    /\ rec_response.meta.persona = NULL

\* The token of the last call passed verification: nothing is wrong with
\* it, it has a sub, and its sub and email have the types of UserInfo.
Verified ==
    /\ access.token.fault = "ok"
    /\ access.token.claims.sub.type = "str"
    /\ access.token.claims.sub.value # ""
    /\ access.token.claims.email.type \in {"str", "none"}

\* The role of the verified user of the last call, by the priority order:
\* operators group, consumers group, custom:role, consumer.
RoleByPriority ==
    LET c == access.token.claims
        member(g) == c.groups.type = "list" /\ \E i \in 1..Len(c.groups.value) : c.groups.value[i] = g
    IN IF member("operators") THEN "operator"
       ELSE IF member("consumers") THEN "consumer"
       ELSE IF c.custom_role.type = "str" /\ c.custom_role.value \in {"consumer", "operator"}
            THEN c.custom_role.value
       ELSE "consumer"

\* C18: a request whose token fails verification for any reason gets 401; a
\* verified user whose role is not operator gets 403 on every operator
\* endpoint and never its payload; a verified user of any role is admitted to
\* every consumer endpoint; require_role(r) admits exactly the users whose
\* role equals r and answers 403 otherwise.
C18_AccessControl ==
    access.status # 0 =>
        /\ ~Verified => (access.status = 401 /\ access.user = NoUser)
        /\ Verified =>
              /\ access.status \in {200, 403}
              /\ access.status = 403 => access.user = NoUser
              /\ access.endpoint \in ConsumerEndpoints => access.status = 200
              /\ access.endpoint \in OperatorEndpoints =>
                    (access.status = 200 <=> RoleByPriority = "operator")
              /\ access.endpoint = "require_role" =>
                    (access.status = 200 <=> RoleByPriority = access.required_role)
              /\ access.status = 200 => access.user.role = RoleByPriority

\* C18 witness: a verified consumer was refused with 403 on an operator
\* endpoint.
C18_Witness ==
    /\ access.endpoint = "users"
    /\ Verified
    /\ RoleByPriority = "consumer"
    /\ access.token.claims.custom_role = Val("str", "operator")
    /\ access.status = 403
    /\ access.user = NoUser

\* C19: extract_role_from_claims follows the priority order: operator if the
\* cognito:groups list contains operators (even beside consumers); else
\* consumer if it contains consumers (even when custom:role is operator);
\* else custom:role when it is consumer or operator; else consumer.  The
\* result is always consumer or operator.
C19_RolePriority ==
    access.status # 0 =>
        /\ extract_role_from_claims(access.token.claims) \in {"consumer", "operator"}
        /\ extract_role_from_claims(access.token.claims) = RoleByPriority
        /\ (access.status = 200 /\ access.endpoint \in ConsumerEndpoints) =>
              access.user.role = RoleByPriority

\* C19 witness: a token in both groups, with custom:role consumer, was given
\* the role operator.
C19_Witness ==
    /\ access.status = 200
    /\ access.endpoint = "profile"
    /\ access.token.claims.groups = Val("list", <<"consumers", "operators">>)
    /\ access.token.claims.custom_role = Val("str", "consumer")
    /\ access.user.role = "operator"

\* The rows of the present store that the parameters q select for the caller.
MatchingRows(q) ==
    Restrict(store, { r \in BagToSet(store) : TransactionsFilter(r, Caller, q) })

\* C21: a 200 answer of the transactions endpoint reports as total the number
\* of rows matching the filters, as total_pages the least n with
\* n * limit >= total (0 when total is 0), and as transactions the rows at
\* positions offset + 1 .. offset + limit, offset = (page - 1) * limit, of the
\* matching rows in date-descending order: at most limit rows.
C21_Pagination ==
    TxAnswered =>
        LET q == tx_response.params
            pg == tx_response.data.pagination
            rows == tx_response.data.transactions
            offset == (q.page - 1) * q.limit
            left == IF pg.total > offset THEN pg.total - offset ELSE 0
        IN /\ pg.page = q.page /\ pg.limit = q.limit
           /\ pg.total = BagCardinality(MatchingRows(q))
           /\ pg.total_pages * q.limit >= pg.total
           /\ pg.total_pages = 0 \/ (pg.total_pages - 1) * q.limit < pg.total
           /\ pg.total = 0 => pg.total_pages = 0
           /\ Len(rows) = Min(q.limit, left)
           /\ \E all \in DateDescOrderings(MatchingRows(q)) :
                 \A i \in 1..Len(rows) : rows[i] = all[offset + i]

\* C21 witness: total 3 with limit 2 gave total_pages 2, and page 2 holds the
\* one row left after offset 2.
C21_Witness ==
    /\ TxAnswered
    /\ tx_response.params.limit = 2
    /\ tx_response.params.page = 2
    /\ tx_response.data.pagination.total = 3
    /\ tx_response.data.pagination.total_pages = 2
    /\ Len(tx_response.data.transactions) = 1

RECURSIVE Concat(_)
\* The pages of the sequence, one after the other.
Concat(pages) == IF pages = <<>> THEN <<>> ELSE Head(pages) \o Concat(Tail(pages))

RECURSIVE SeqToBag(_)
SeqToBag(rows) == IF rows = <<>> THEN EmptyBag ELSE SetToBag({Head(rows)}) (+) SeqToBag(Tail(rows))

\* C28: once a client has fetched pages 1..total_pages with fixed filters and
\* limit over an unchanged store, the pages together hold every matching
\* transaction exactly once, in non-increasing date order.
C28_PagesCoverOnce ==
    (Idle /\ collected.pages # <<>> /\ Len(collected.pages) = collected.total_pages) =>
        LET all == Concat(collected.pages)
        IN /\ SeqToBag(all) = MatchingRows(collected.q)
           /\ \A i \in 1..(Len(all) - 1) : all[i].date >= all[i + 1].date

\* The entries of the history of the given kinds.
Entries(kinds) == { k \in 1..Len(history) : history[k].kind \in kinds }

\* The entry at which the invocation holding entry k began.
StartOf(k) ==
    CHOOSE s \in Entries({"start", "scheduled"}) :
        s <= k /\ \A j \in Entries({"start", "scheduled"}) : j <= k => j <= s

\* The calls of put_events made by the invocation that returned at entry i.
PutsOf(i) == { k \in Entries({"put_events"}) : StartOf(i) <= k /\ k <= i }

\* The invocation holding entry k had finished its processing step by then.
ProcessedBefore(k) == \E p \in Entries({"processed"}) : StartOf(k) <= p /\ p < k

\* The event is the completion event of fn for user u, with a timestamp.
CompletionEvent(e, fn, u) ==
    /\ e.source = "spendsense"
    /\ e.detail.event_type = (IF fn = "compute_features" THEN "features.computed" ELSE "persona.assigned")
    /\ e.detail.user_id = u
    /\ e.detail.timestamp > 0

\* The return at entry i is a 200 of an invocation that carried a user_id.
CompletedForUser(i) ==
    /\ history[i].statusCode = 200
    /\ Truthy(history[StartOf(i)].user_id)

\* C22 as stated: every compute_features or assign_persona invocation that
\* carries a user_id and returns 200 has put exactly one completion event with
\* that user_id and a timestamp on the bus, after its processing step; an
\* invocation without user_id or returning 500 has emitted none.
C22_ExactlyOneEvent ==
    \A i \in Entries({"return"}) :
        history[i].fn \in {"compute_features", "assign_persona"} =>
            LET accepted == { k \in PutsOf(i) : history[k].outcome = "ok" }
            IN IF CompletedForUser(i)
               THEN /\ Cardinality(accepted) = 1
                    /\ \A k \in accepted :
                          /\ CompletionEvent(history[k].event, history[i].fn, history[StartOf(i)].user_id)
                          /\ ProcessedBefore(k)
               ELSE accepted = {}

\* C22, amended: such an invocation calls put_events exactly once, after its
\* processing step, with the completion event carrying the user_id and a
\* timestamp, and returns 200 whatever the call's outcome; the event is on the
\* bus only if put_events accepted it, so at most one event is emitted.  An
\* invocation without user_id or returning 500 has not called put_events.
\* The invocations owed or started from events are exactly the accepted
\* entries.
C22_OneEmitAttempt ==
    /\ \A i \in Entries({"return"}) :
          history[i].fn \in {"compute_features", "assign_persona"} =>
              IF CompletedForUser(i)
              THEN /\ Cardinality(PutsOf(i)) = 1
                   /\ \A k \in PutsOf(i) :
                         /\ CompletionEvent(history[k].event, history[i].fn, history[StartOf(i)].user_id)
                         /\ ProcessedBefore(k)
              ELSE PutsOf(i) = {}
    /\ \A k \in Entries({"put_events"}) : ProcessedBefore(k)
    /\ BagCardinality(bus) + Cardinality(Entries({"start"}))
          = Cardinality({ k \in Entries({"put_events", "signup"}) : history[k].outcome = "ok" })

\* C22 witness: compute_features returned 200 for u1 although its put_events
\* call raised, and nothing is owed to assign_persona.
C22_Witness ==
    /\ \E i \in Entries({"return"}) :
          /\ history[i].fn = "compute_features"
          /\ history[i].statusCode = 200
          /\ history[i].user_id = "u1"
          /\ \E k \in PutsOf(i) : history[k].outcome = "raises"
    /\ bus = EmptyBag
    /\ job = NoJob

\* The invocations of fn started by an event for user u.
Started(fn, u) == { k \in Entries({"start"}) : history[k].fn = fn /\ history[k].user_id = u }

\* The completion events of fn for user u that the bus accepted.
Accepted(fn, u) ==
    { k \in Entries({"put_events"}) :
        history[k].fn = fn /\ history[k].user_id = u /\ history[k].outcome = "ok" }

\* The position of a function in the chain.
Stage(fn) ==
    CASE fn = "compute_features" -> 1
      [] fn = "assign_persona" -> 2
      [] fn = "generate_recommendations" -> 3

\* Every stage ran for a user at most as often as the previous stage completed
\* for that user, the first stage at most once per sign-up event; the last
\* stage emits nothing and every emitted event triggers the next stage only.
ChainInOrder ==
    /\ \A u \in JobUserIds :
          /\ Cardinality(Started("compute_features", u))
                <= Cardinality({ k \in Entries({"signup"}) : history[k].user_id = u })
          /\ Cardinality(Started("assign_persona", u)) <= Cardinality(Accepted("compute_features", u))
          /\ Cardinality(Accepted("compute_features", u)) <= Cardinality(Started("compute_features", u))
          /\ Cardinality(Started("generate_recommendations", u))
                <= Cardinality(Accepted("assign_persona", u))
          /\ Cardinality(Accepted("assign_persona", u)) <= Cardinality(Started("assign_persona", u))
    /\ \A k \in Entries({"put_events"}) :
          /\ history[k].fn # "generate_recommendations"
          /\ \A r \in EventRules :
                Matches(r, history[k].event) => Stage(r.target) = Stage(history[k].fn) + 1

\* Nothing is owed by EventBridge and no handler is running.
JobsQuiet == bus = EmptyBag /\ job = NoJob

\* C30: the event chain terminates and runs in order: per sign-up event of a
\* user at most one invocation each of compute_features, assign_persona and
\* generate_recommendations, each stage started only by the completion event
\* of the stage before; generate_recommendations emits no event and no
\* handler emits an event that triggers itself or an earlier stage; every
\* chain comes to rest.
C30_ChainTerminates == [](ChainInOrder) /\ []<>(JobsQuiet)

\* C30 witness: one sign-up of u1 has run through the three stages and the
\* chain is at rest.
C30_Witness ==
    /\ JobsQuiet
    /\ Cardinality({ k \in Entries({"signup"}) : history[k].user_id = "u1" }) = 1
    /\ \E a \in Started("compute_features", "u1"), b \in Started("assign_persona", "u1"),
          c \in Started("generate_recommendations", "u1") :
            /\ a < b /\ b < c
            /\ \E i \in Entries({"return"}) :
                  i > c /\ history[i].fn = "generate_recommendations" /\ history[i].statusCode = 200

\* The number of rows of user u in the table.
CountOf(u) == BagCardinality(Restrict(store, { r \in BagToSet(store) : r.user_id = u }))

Span(b) == b.week_end - b.week_start + 1

\* The buckets appended so far partition [start_date, current_date - 1] into
\* runs of 7 days, the last one cut at end_date; once the loop has ended they
\* partition [start_date, end_date] and are the buckets get_insights uses.
BucketsPartition ==
    loop.pc # NULL =>
        LET b == loop.week_buckets
            n == Len(b)
        IN /\ n > 0 => b[1].week_start = loop.start_date
           /\ \A i \in 1..(n - 1) : b[i + 1].week_start = b[i].week_end + 1 /\ Span(b[i]) = 7
           /\ \A i \in 1..n : Span(b[i]) >= 1 /\ Span(b[i]) <= 7 /\ b[i].week_end <= loop.end_date
           /\ loop.current_date = (IF n = 0 THEN loop.start_date ELSE b[n].week_end + 1)
           /\ loop.pc = "done" =>
                 /\ n >= 1
                 /\ b[n].week_end = loop.end_date
                 /\ b = WeekBuckets(loop.start_date, loop.end_date)

\* C24: for every start_date <= end_date the week-bucket loop terminates, and
\* its buckets partition [start_date, end_date]: the first starts at
\* start_date, each next one starts the day after the previous one ends, all
\* but possibly the last span 7 days, and the last ends at end_date and spans
\* 1 to 7 days.
C24_BucketsTerminateAndPartition ==
    [](BucketsPartition) /\ ((loop.pc = "while") ~> (loop.pc = "done"))

\* C24 witness: the loop ended with three buckets, the last of a single day.
C24_Witness ==
    /\ loop.pc = "done"
    /\ Len(loop.week_buckets) = 3
    /\ Span(loop.week_buckets[3]) = 1
    /\ Span(loop.week_buckets[1]) = 7

\* The end date of the b-th 7-day bucket of the window of the request.
BucketEnd(b) == Min(frame.start_date + 7 * b - 1, frame.end_date)

\* C25: the points of charts.credit_utilization come bucket by bucket in
\* chronological order, each dated with the end date of its bucket, and
\* within one bucket account by account in the order in which the account
\* query returned the accounts.
C25_PointsByBucketThenAccount ==
    Answered =>
        LET pts == response.data.credit_utilization
            k == Len(PointAccounts)
        IN /\ \A i, j \in 1..Len(pts) : i < j => pts[i].date <= pts[j].date
           /\ \A i \in 1..Len(pts) :
                 LET a == PointAccounts[((i - 1) % k) + 1]
                 IN /\ pts[i].date = BucketEnd(((i - 1) \div k) + 1)
                    /\ pts[i].limit = a.limit[1]
                    /\ pts[i].balance = Balance(a)

\* C25 witness: the account query returned a2 before a1, and the first bucket
\* gives the point of a2, then the point of a1, before the second bucket
\* begins.
C25_Witness ==
    /\ Answered
    /\ Len(PointAccounts) = 2
    /\ PointAccounts[1].id = "a2"
    /\ PointAccounts[2].id = "a1"
    /\ response.data.credit_utilization[1].limit = 300000
    /\ response.data.credit_utilization[2].limit = 500000
    /\ response.data.credit_utilization[1].date = response.data.credit_utilization[2].date
    /\ response.data.credit_utilization[2].date < response.data.credit_utilization[3].date

\* The divisors of the divisions that the statement the handler is about to
\* run executes on the data it fetches.
PendingDivisors ==
    CASE pc = "q_total" -> DailySpendDivisors(frame)
      [] pc = "q_accounts" ->
            UtilizationDivisors({ a \in accounts : a.user_id = Caller /\ a.account_type = "credit_card" })
      [] pc = "q_merchant" ->
            ConsistencyDivisors(MerchantTransactionsQuery(store, Caller, frame.start_date, frame.end_date,
                                                          Head(frame.subscription_merchants)))
      [] OTHER -> {}

\* Three rows of amount zero: a merchant whose mean is zero.
ZeroMeanRows == [r \in {Tx(Caller, 90, "Gym", 0, NULL)} |-> 3]

\* C26: once the data is fetched no division of get_insights has a zero
\* divisor: an account with a zero or absent limit is skipped, a merchant
\* with a zero mean is rejected and days_in_period = 0 gives an
\* average_daily_spend of 0; with the session committed the answer is a 200
\* whose points belong to the accounts with a positive limit only.
C26_NoZeroDivisor ==
    /\ 0 \notin PendingDivisors
    /\ \A a \in accounts : HasLimit(a) => a.limit[1] > 0
    /\ IsConsistentChoices(ZeroMeanRows) = {FALSE}
    /\ AverageDailySpendChoices([frame EXCEPT !.days_in_period = 0]) = {0}
    /\ Answered =>
          /\ session = "committed"
          /\ \A i \in 1..Len(response.data.credit_utilization) :
                response.data.credit_utilization[i].limit > 0

\* C26 witness: a 200 answer for a caller who has a card with limit 0 and a
\* card without limit beside the card with limit 5000.00, and only the latter
\* has points.
C26_Witness ==
    /\ Answered
    /\ \A id \in {"a1", "a3", "a5"} : \E a \in accounts : a.id = id
    /\ Len(response.data.credit_utilization) >= 5
    /\ \A i \in 1..Len(response.data.credit_utilization) :
          response.data.credit_utilization[i].limit = 500000

\* C27: in a response over a fixed store, summary.top_category is null exactly
\* when charts.spending_by_category is empty, and otherwise is the category of
\* its first element, also when several categories tie for the largest sum.
C27_TopCategoryIsFirst ==
    (Answered /\ FixedStore) =>
        IF response.data.spending_by_category = <<>>
        THEN response.data.top_category = NULL
        ELSE response.data.top_category = response.data.spending_by_category[1].category

\* ------------------------------------------------------------------------
\* C29: get_session closes, commits and rolls back as its clauses say
\* ------------------------------------------------------------------------

\* The positions in ctx.calls of get_session's own calls of method op.
Own(op) == { i \in 1..Len(ctx.calls) : ctx.calls[i].by = "get_session" /\ ctx.calls[i].op = op }

\* The exception the body or get_session's commit raised (NULL if neither
\* did): the commit is attempted only after a body that returned, so at most one
\* of them raises.
Original ==
    IF ctx.body \notin {NULL, "returns"} THEN ctx.body
    ELSE IF ctx.commit \notin {NULL, "ok"} THEN ctx.commit
    ELSE NULL

\* get_session has returned control to its caller for good.
Exited == ctx.pc = "exit" /\ ctx.obtained

\* Closed exactly once at exit (and never twice before), by the last call.
ClosedOnce ==
    /\ Cardinality(Own("close")) <= 1
    /\ Exited => Own("close") = {Len(ctx.calls)}
    /\ (ctx.obtained /\ ctx.pc # "exit") => Own("close") = {}

\* get_session attempts its commit only after the body returned.
CommitOnlyAfterBody == Own("commit") # {} => ctx.body = "returns"

\* get_session never calls rollback after its own commit returned.
NoRollbackAfterCommit ==
    \A i \in Own("commit"), j \in Own("rollback") : ~(ctx.calls[i].outcome = "ok" /\ i < j)

====
